---- MODULE Spec2Model ----
(***************************************************************************)
(* State-machine model of the token store, the login / refresh operations, *)
(* the request / response interceptors of the shared axios client          *)
(* (lib/api) and of the AuthProvider that sits on top of them.             *)
(*                                                                         *)
(* One step of the model is one macrotask of the browser's event loop: a   *)
(* user action, an effect run, or the arrival of an HTTP response together *)
(* with every promise continuation (microtask) it unblocks.                *)
(***************************************************************************)
EXTENDS Integers, Sequences, FiniteSets, TLC

\* ------------------------------------------------------------------ bounds
MaxReqs == 2        \* requests of the pages that are outstanding at one time
MaxSpies == 2       \* recording listeners the token-store driver registers
MaxStoreCalls == 4  \* calls the token-store driver makes
MaxDocs == 2        \* documents the backend holds
MaxPage == 2        \* pages of the document list
MaxLoads == 2       \* list loads (and preset loads) in flight at one time
MaxPolls == 2       \* poll rounds in flight at one time
MaxFiles == 2       \* files of one selection
MaxRuns == 2        \* runs of handleUpload in progress at one time

Reqs == 1..MaxReqs
Spies == 1..MaxSpies

\* ------------------------------------------------------------------ values
\* null / undefined / a header that is absent
Null == <<>>

AccessTok(n) == <<"access", n>>
RefreshTok(n) == <<"refresh", n>>

\* `Bearer ${token}`
Bearer(tok) == <<"Bearer", tok>>

\* the index of a token, of the token in a header
TokIdx(tok) == IF tok = Null THEN {} ELSE {tok[2]}

\* the least positive number not in used
Fresh(used) ==
    CHOOSE n \in 1..(Cardinality(used) + 1) :
        n \notin used /\ \A m \in 1..(n - 1) : m \in used

\* URLs as the sequence of their path segments
TOKEN_URL == <<"api", "auth", "token">>
REFRESH_URL == <<"api", "auth", "token", "refresh">>
DOCUMENTS_URL == <<"api", "documents">>
ME_URL == <<"api", "me">>
PROFILE_URL == <<"api", "profile">>

\* the URLs the pages reach through the shared client
ApiUrls == {DOCUMENTS_URL}

\* String.prototype.includes, on path segments
Includes(url, pat) ==
    \E i \in 0..(Len(url) - Len(pat)) : SubSeq(url, i + 1, i + Len(pat)) = pat

\* a response or an error as its receiver sees it: which call, which
\* attempt, which HTTP status (0: no response at all)
Outcome(src, id, attempt, status) ==
    [src |-> src, id |-> id, attempt |-> attempt, status |-> status]

NoOutcome == Outcome("none", 0, 0, 0)

\* what the backend may answer to a request sent through the shared client
ApiStatuses == {200, 401, 403, 500, 0}

\* what the backend may answer to a refresh POST: a new access token, a new
\* access token with a rotated refresh token, a 200 without an access token,
\* or an error
RefreshAnswers == {"access", "rotated", "empty", "401", "500"}

LoginAnswers == {"tokens", "401"}

VARIABLES
    strictMode,      \* development build: React StrictMode runs mount effects twice
    accessToken,     \* let accessToken
    storedRefresh,   \* localStorage[REFRESH_TOKEN_KEY]
    tokenListeners,  \* const tokenListeners = new Set()
    heard,           \* what each recording listener was called with
    refreshPromise,  \* let refreshPromise: id of the pending refresh POST, or 0
    refreshCalls,    \* refresh POSTs in flight
    reqs,            \* requests outstanding on the shared client
    loginCall,       \* the login POST
    authMounted,     \* AuthProvider: mount effects have run
    authState,       \* AuthProvider: useState accessToken
    isLoading,       \* AuthProvider: useState isLoading
    delivered,       \* what the last step handed to the callers of requests
    emitted,         \* the AuthRequiredEvents the last step dispatched
    loginResult,     \* what the last step handed to the caller of login
    storeLog,        \* the calls the token-store driver has made, in order
    user,            \* UserProvider: useState user
    DocumentsPage,   \* the state of DocumentsPage and its calls in flight
    UploadPage       \* the state of UploadPage and its calls in flight

vars == <<strictMode, accessToken, storedRefresh, tokenListeners, heard,
          refreshPromise, refreshCalls, reqs, loginCall, authMounted,
          authState, isLoading, delivered, emitted, loginResult, storeLog, user,
          DocumentsPage, UploadPage>>

\* ------------------------------------------------------------ token store
\* The part of the state the token-store functions write, as one value, so
\* that a handler can call them several times in a row.
Store ==
    [accessToken |-> accessToken, refreshToken |-> storedRefresh,
     authState |-> authState, heard |-> heard]

Commit(T) ==
    /\ accessToken' = T.accessToken
    /\ storedRefresh' = T.refreshToken
    /\ authState' = T.authState
    /\ heard' = T.heard

AuthListener(n) == [kind |-> "auth", id |-> n]
SpyListener(n) == [kind |-> "spy", id |-> n]

\* listener(token): the AuthProvider's listener is setAccessTokenState; a
\* recording listener notes its argument and what getAccessToken() returns
\* at that moment
CallListener(T, l, token) ==
    IF l.kind = "auth"
    THEN [T EXCEPT !.authState = token]
    ELSE [T EXCEPT !.heard[l.id] =
              Append(@, [arg |-> token, seen |-> T.accessToken])]

RECURSIVE ForEachListener(_, _, _)
ForEachListener(T, ls, token) ==
    IF ls = {} THEN T
    ELSE LET l == CHOOSE x \in ls : TRUE
         IN ForEachListener(CallListener(T, l, token), ls \ {l}, token)

NotifyTwice(T, token) ==
    ForEachListener(ForEachListener(T, tokenListeners, token),
                    tokenListeners, token)

notifyTokenListeners(T, token) == ForEachListener(T, tokenListeners, token)

getAccessToken(T) == T.accessToken

SetAccessTokenNotifyFirst(T, token) ==
    [notifyTokenListeners(T, token) EXCEPT !.accessToken = token]

setAccessToken(T, token) ==
    notifyTokenListeners([T EXCEPT !.accessToken = token], token)

\* ---- persistent storage
\* The global object as the two functions find it: window is undefined
\* (no browser), or window.localStorage works, or reading the property
\* or calling its methods raises (storage blocked, quota exceeded).
WindowModes == {"undefined", "works", "raises"}

\* how a call ends: it returns value or it throws; item is what the storage
\* entry REFRESH_TOKEN_KEY holds afterwards
Returned(value, item) == [threw |-> FALSE, value |-> value, item |-> item]

Thrown(item) == [threw |-> TRUE, value |-> Null, item |-> item]

\* window.localStorage.getItem(REFRESH_TOKEN_KEY)
getItem(mode, item) ==
    IF mode = "raises" THEN Thrown(item) ELSE Returned(item, item)

\* window.localStorage.setItem(REFRESH_TOKEN_KEY, token)
setItem(mode, item, token) ==
    IF mode = "raises" THEN Thrown(item) ELSE Returned(Null, token)

\* window.localStorage.removeItem(REFRESH_TOKEN_KEY)
removeItem(mode, item) ==
    IF mode = "raises" THEN Thrown(item) ELSE Returned(Null, Null)

\* getRefreshToken() in a given environment; nothing catches what the
\* storage raises
getRefreshTokenIn(mode, item) ==
    IF mode = "undefined" THEN Returned(Null, item) ELSE getItem(mode, item)

\* setRefreshToken(token) in a given environment
setRefreshTokenIn(mode, item, token) ==
    IF mode = "undefined" THEN Returned(Null, item)
    ELSE IF token # Null THEN setItem(mode, item, token)
    ELSE removeItem(mode, item)

\* the two functions in the browser with a working storage, which is the
\* environment of the session model
getRefreshToken(T) == getRefreshTokenIn("works", T.refreshToken).value

setRefreshToken(T, token) ==
    [T EXCEPT !.refreshToken = setRefreshTokenIn("works", @, token).item]

ClearAccessOnly(T) == setAccessToken(T, Null)

clearTokens(T) == setRefreshToken(setAccessToken(T, Null), Null)

\* subscribeAccessToken(listener): tokenListeners.add(listener); T is the
\* store, ls the set
SubscribeWithReplay(T, ls, l) ==
    [T |-> CallListener(T, l, getAccessToken(T)), ls |-> ls \cup {l}]

subscribeAccessToken(T, ls, l) == [T |-> T, ls |-> ls \cup {l}]

UnsubscribeNoop(ls, l) == ls

\* the function subscribeAccessToken returns: tokenListeners.delete(listener)
unsubscribe(ls, l) == ls \ {l}

\* --------------------------------------------------------------- clients
\* api has the two interceptors registered on it, authApi has none
api == [name |-> "api", interceptors |-> TRUE]

AuthApiIntercepted == [name |-> "authApi", interceptors |-> TRUE]

authApi == [name |-> "authApi", interceptors |-> FALSE]

InterceptorOverwrites(config, token) ==
    IF token # Null THEN Bearer(token) ELSE config

\* api.interceptors.request: config is the Authorization header of the
\* request, or Null when it has none
requestInterceptor(config, token) ==
    IF token # Null /\ config = Null THEN Bearer(token) ELSE config

\* the Authorization header a request leaves with
Dispatch(client, config, token) ==
    IF client.interceptors THEN requestInterceptor(config, token) ELSE config

isAuthEndpoint(requestUrl) ==
    Includes(requestUrl, TOKEN_URL) \/ Includes(requestUrl, REFRESH_URL)

BranchIgnoringRetry(status, retry, requestUrl, refreshToken) ==
    IF status = 401 /\ ~isAuthEndpoint(requestUrl)
    THEN IF refreshToken = Null THEN "no_refresh_token" ELSE "refresh"
    ELSE IF status = 401 \/ status = 403 THEN "auth_required" ELSE "reject"

BranchSilentOn403(status, retry, requestUrl, refreshToken) ==
    IF status = 401 /\ ~retry /\ ~isAuthEndpoint(requestUrl)
    THEN IF refreshToken = Null THEN "no_refresh_token" ELSE "refresh"
    ELSE IF status = 401 THEN "auth_required" ELSE "reject"

BranchRefreshingOn403(status, retry, requestUrl, refreshToken) ==
    IF (status = 401 \/ status = 403) /\ ~retry /\ ~isAuthEndpoint(requestUrl)
    THEN IF refreshToken = Null THEN "no_refresh_token" ELSE "refresh"
    ELSE IF status = 401 \/ status = 403 THEN "auth_required" ELSE "reject"

\* api.interceptors.response, rejected handler: the branch it takes
interceptorBranch(status, retry, requestUrl, refreshToken) ==
    IF status = 401 /\ ~retry /\ ~isAuthEndpoint(requestUrl)
    THEN IF refreshToken = Null THEN "no_refresh_token" ELSE "refresh"
    ELSE IF status = 401 \/ status = 403 THEN "auth_required" ELSE "reject"

\* emitAuthRequired({ status }), tagged with the call it was dispatched for
AuthRequired(src, id, status) == [src |-> src, id |-> id, status |-> status]

AlwaysStart(promise) == TRUE

\* if (!refreshPromise)
mustStartRefresh(promise) == promise = 0

\* the sync part of refreshAccessToken(): the POST through authApi, with the
\* Authorization header it leaves with (its body is read by the backend
\* alone, whose answer the model leaves open); waiters are the requests
\* whose handlers await the promise, in await order
RefreshPost(id, by, T) ==
    [id |-> id, by |-> by,
     auth |-> Dispatch(authApi, Null, getAccessToken(T)), waiters |-> <<>>]

\* an error of a call made through client, as the client's response
\* interceptor (if it has one) treats it: the events it dispatches
AuthCallEvents(client, id, status, url, retry, refreshToken) ==
    IF client.interceptors
       /\ interceptorBranch(status, retry, url, refreshToken) = "auth_required"
    THEN <<AuthRequired(client.name, id, status)>>
    ELSE <<>>

RejectWithRefreshError(error, refreshError) == refreshError

\* catch { /* handled below */ } ... return Promise.reject(error): what the
\* handler of the original request goes on with after the refresh failed
propagatedError(error, refreshError) == error

\* a request slot: pc, the config (url, _retry, headers.Authorization), how
\* often it was sent, the refresh its handler awaits, the error it holds
NewRequest ==
    [pc |-> "idle", url |-> Null, retry |-> FALSE, auth |-> Null, sends |-> 0,
     waitOn |-> 0, error |-> NoOutcome]

\* what a caller gets back: the return statement that produced it, the
\* response or error, and how often the request had been sent
Delivery(via, result, sends) == [via |-> via, result |-> result, sends |-> sends]

NotDelivered == Delivery("none", NoOutcome, 0)

NoDelivery == [r \in Reqs |-> NotDelivered]

\* the tokens the backend issues next: it never hands out again the token
\* the store holds at that moment
NewAccessToken == AccessTok(Fresh(TokIdx(accessToken)))

NewRefreshToken == RefreshTok(Fresh(TokIdx(storedRefresh)))

\* refreshAccessToken() up to its await: without a refresh token it returns
\* null and sends nothing, otherwise it sends the POST
refreshAccessTokenStart(id, by, T) ==
    IF getRefreshToken(T) = Null
    THEN [sent |-> FALSE, posts |-> {}]
    ELSE [sent |-> TRUE, posts |-> {RefreshPost(id, by, T)}]

RefreshAlwaysReplaces(T, ans) ==
    LET access == IF ans \in {"access", "rotated"} THEN NewAccessToken ELSE Null
        nextRefresh == IF ans = "rotated" THEN NewRefreshToken ELSE Null
        T1 == IF access # Null THEN setAccessToken(T, access) ELSE T
    IN IF ans \in {"401", "500"}
       THEN [T |-> T, threw |-> TRUE, value |-> Null]
       ELSE [T |-> setRefreshToken(T1, nextRefresh), threw |-> FALSE,
             value |-> access]

\* refreshAccessToken() after its await: const { access, refresh:
\* nextRefresh } = response.data; if (access) setAccessToken(access);
\* if (nextRefresh) setRefreshToken(nextRefresh); return access; or
\* catch (err) { throw err }
refreshAccessTokenEnd(T, ans) ==
    LET access == IF ans \in {"access", "rotated"} THEN NewAccessToken ELSE Null
        nextRefresh == IF ans = "rotated" THEN NewRefreshToken ELSE Null
        T1 == IF access # Null THEN setAccessToken(T, access) ELSE T
        T2 == IF nextRefresh # Null THEN setRefreshToken(T1, nextRefresh) ELSE T1
    IN IF ans \in {"401", "500"}
       THEN [T |-> T, threw |-> TRUE, value |-> Null]
       ELSE [T |-> T2, threw |-> FALSE, value |-> access]

\* ------------------------------------------------------------- the pages
\* What DocumentsPage and UploadPage have in common: the polling effect.
RemoveAt(seq, i) == SubSeq(seq, 1, i - 1) \o SubSeq(seq, i + 1, Len(seq))

\* setError("Falha ao ..."): the message, by what failed
ErrorMessage(kind) == <<"Falha", kind>>

\* window.setInterval(poll, 3000) / window.clearInterval(interval): the
\* timer of the polling effect and the ids its poll closes over
NoInterval == [on |-> FALSE, ids |-> {}]

Interval(ids) == [on |-> TRUE, ids |-> ids]

\* poll() up to its await: one round of fetchDocument(id) for the ids of the
\* effect, with the isActive flag of the effect run it belongs to
Poll(ids) == [ids |-> ids, isActive |-> TRUE]

CleanupKeepsActive(P) == [P EXCEPT !.interval = NoInterval]

\* return () => { isActive = false; window.clearInterval(interval); }
pollingCleanup(P) ==
    [P EXCEPT !.polls = [i \in 1..Len(P.polls) |->
                            [P.polls[i] EXCEPT !.isActive = FALSE]],
              !.interval = NoInterval]

\* the polling effect: nothing for no ids, else poll(); setInterval(poll)
pollingEffect(P, ids) ==
    IF ids = {} THEN P
    ELSE [P EXCEPT !.polls = Append(@, Poll(ids)), !.interval = Interval(ids)]

\* useMemo([documents]) / useEffect([pollingIds]): the memo returns a new
\* array whenever the list it filters is a new array, whatever the ids in
\* it, and the effect compares arrays by identity: after every setDocuments
\* and setUploads the cleanup runs and the effect runs again
rerunPolling(P, ids) == pollingEffect(pollingCleanup(P), ids)

\* the statuses the backend reports for a document
DocumentStatuses == {"PENDING", "PROCESSING", "DONE", "FAILED"}

\* the statuses that keep a document polled
PolledStatuses == {"PENDING", "PROCESSING"}

\* ------------------------------------------------------------ DocumentsPage
DocIds == 1..MaxDocs

Pages == 1..MaxPage

PageSizes == {10, 25, 50}

Document(id, status) == [id |-> id, status |-> status]

\* const initialFilters: the module's one object (ref: which object, the
\* effect compares its dependencies by identity)
initialFilters == [ref |-> 0, query |-> 0]

\* a filters object made later: by FiltersBar's onFiltersChange, or by
\* { ...prev }; never identical to the object prev it replaces
OwnFilters(prev, q) == [ref |-> IF prev.ref = 1 THEN 2 ELSE 1, query |-> q]

\* what the user may type into the filters form
FilterQueries == {0, 1}

NewDocumentsPage ==
    [mounted |-> FALSE, appliedFilters |-> initialFilters, page |-> 1,
     pageSize |-> 10, documents |-> {}, selectedIds |-> {}, totalCount |-> 0,
     hasNextPage |-> FALSE, hasPreviousPage |-> FALSE, loading |-> FALSE,
     presetsLoading |-> FALSE, error |-> Null, loads |-> <<>>,
     presetLoads |-> 0, reprocesses |-> {}, polls |-> <<>>,
     interval |-> NoInterval]

\* documents.filter(PENDING || PROCESSING).map((doc) => doc.id)
pollingIds(documents) ==
    {d.id : d \in {x \in documents : x.status \in PolledStatuses}}

\* setDocuments(...), with the polling effect the new array re-runs
setDocuments(P, documents) ==
    rerunPolling([P EXCEPT !.documents = documents], pollingIds(documents))

\* fetchDocuments({ ...appliedFilters, page, pageSize }): its parameters
Query(P) ==
    [query |-> P.appliedFilters.query, page |-> P.page, pageSize |-> P.pageSize]

\* loadDocuments() up to its await
loadDocuments(P) ==
    [P EXCEPT !.loading = TRUE, !.error = Null, !.loads = Append(@, Query(P))]

\* loadPresets() up to its await
loadPresets(P) ==
    [P EXCEPT !.presetsLoading = TRUE, !.presetLoads = @ + 1]

\* { items, count, next, previous } of fetchDocuments
ListResult(items, count, next, previous) ==
    [items |-> items, count |-> count, next |-> next, previous |-> previous]

KeepSelection(prev, items) == prev

\* setSelectedIds((prev) => ...): the ids of prev that are in result.items
pruneSelection(prev, items) ==
    IF prev = {} THEN prev ELSE {d.id : d \in items} \cap prev

\* loadDocuments() after its await: the setters of the try block, or the
\* catch, then finally setLoading(false)
loadDocumentsSettles(P, result, ok) ==
    IF ok
    THEN [setDocuments(P, result.items) EXCEPT
              !.totalCount = result.count,
              !.hasNextPage = result.next,
              !.hasPreviousPage = result.previous,
              !.selectedIds = pruneSelection(@, result.items),
              !.loading = FALSE]
    ELSE [P EXCEPT !.error = ErrorMessage("documentos"), !.loading = FALSE]

\* prev.map((doc) => map.get(doc.id) ?? doc)
applyUpdates(documents, updates) ==
    {IF \E u \in updates : u.id = d.id
     THEN CHOOSE u \in updates : u.id = d.id
     ELSE d : d \in documents}

\* the answers to one round of fetchDocument(id) for ids, with statuses
\* among the given ones
Updates(ids, statuses) ==
    {{Document(i, f[i]) : i \in ids} : f \in [ids -> statuses]}

\* updates holds one answer for each of ids
AnswersRound(updates, ids) ==
    /\ {u.id : u \in updates} = ids
    /\ Cardinality(updates) = Cardinality(ids)
    /\ \A u \in updates : u.status \in DocumentStatuses

\* poll() after its await, for the round p: if (!isActive) return; then
\* setDocuments, or in the catch if (isActive) setError(...)
pollSettles(P, p, updates, ok) ==
    IF ~p.isActive THEN P
    ELSE IF ok THEN setDocuments(P, applyUpdates(P.documents, updates))
    ELSE [P EXCEPT !.error = ErrorMessage("status")]

\* Math.max(1, Math.ceil(totalCount / pageSize))
totalPages(P) ==
    LET pages == (P.totalCount + P.pageSize - 1) \div P.pageSize
    IN IF pages > 1 THEN pages ELSE 1

canGoNext(P) == P.hasNextPage \/ P.page < totalPages(P)

canGoPrevious(P) == P.hasPreviousPage \/ P.page > 1

\* the load effect runs again when appliedFilters, page or pageSize of the
\* new render differ (the filters by identity) from those of the last one
loadEffect(P, Q) ==
    IF Q.appliedFilters # P.appliedFilters \/ Q.page # P.page
       \/ Q.pageSize # P.pageSize
    THEN loadDocuments(Q) ELSE Q

\* --------------------------------------------------------------- UploadPage
UploadItem(localId, status, documentId) ==
    [localId |-> localId, status |-> status, documentId |-> documentId]

NewUploadPage ==
    [mounted |-> FALSE, uploads |-> <<>>, error |-> Null, isUploading |-> FALSE,
     enabledFields |-> Null, fieldLoads |-> 0, runs |-> <<>>, polls |-> <<>>,
     interval |-> NoInterval]

\* uploads.filter(documentId && (PENDING || PROCESSING)).map(documentId)
pendingIds(uploads) ==
    {uploads[i].documentId :
        i \in {k \in 1..Len(uploads) : /\ uploads[k].documentId # 0
                                       /\ uploads[k].status \in PolledStatuses}}

\* setUploads(...), with the polling effect the new array re-runs
setUploads(P, uploads) ==
    rerunPolling([P EXCEPT !.uploads = uploads], pendingIds(uploads))

\* prev.map((entry) => entry.localId === item.localId ? {...} : entry)
markUpload(uploads, localId, status, documentId) ==
    [i \in 1..Len(uploads) |->
        IF uploads[i].localId = localId
        THEN UploadItem(localId, status, documentId)
        ELSE uploads[i]]

\* for (const item of uploads) { if (item.status !== "READY") continue; ...:
\* the next item of the snapshot the loop sends, from index from on (0: none)
nextReady(items, from) ==
    LET ready == {k \in from..Len(items) : items[k].status = "READY"}
    IN IF ready = {} THEN 0
       ELSE CHOOSE k \in ready : \A m \in ready : k <= m

\* the run of handleUpload over the snapshot items, awaiting the upload of
\* items[pos]; live: its component instance is still mounted
UploadRun(items, pos) == [items |-> items, pos |-> pos, live |-> TRUE]

\* ---------------------------------------------------------------- Init
Init ==
    /\ strictMode \in BOOLEAN
    /\ accessToken = Null
    /\ storedRefresh \in {Null, RefreshTok(1)}
    /\ tokenListeners = {}
    /\ heard = [s \in Spies |-> <<>>]
    /\ refreshPromise = 0
    /\ refreshCalls = {}
    /\ reqs = [r \in Reqs |-> NewRequest]
    /\ loginCall = [pc |-> "idle", auth |-> Null]
    /\ authMounted = FALSE
    /\ authState = Null
    /\ isLoading = TRUE
    /\ delivered = NoDelivery
    /\ emitted = <<>>
    /\ loginResult = NoOutcome
    /\ storeLog = <<>>
    /\ user = Null
    /\ DocumentsPage = NewDocumentsPage
    /\ UploadPage = NewUploadPage

\* ------------------------------------------------------------ AuthProvider
\* The mount effects of AuthProvider: subscribe to the store, then
\* initialize(). Under StrictMode React runs them, their cleanup, and them
\* again, all in the commit of the first render.
EffectRuns == IF strictMode THEN {1, 2} ELSE {1}

AuthProviderMount ==
    LET first == subscribeAccessToken(Store, tokenListeners, AuthListener(1))
        again == subscribeAccessToken(
                     first.T, unsubscribe(first.ls, AuthListener(1)),
                     AuthListener(2))
        sub == IF strictMode THEN again ELSE first
    IN
    /\ ~authMounted
    /\ authMounted' = TRUE
    /\ tokenListeners' = sub.ls
    /\ Commit(sub.T)
    /\ IF getRefreshToken(sub.T) = Null
       THEN /\ isLoading' = FALSE
            /\ UNCHANGED refreshCalls
       ELSE /\ refreshCalls' = refreshCalls \cup
                   {RefreshPost(k, "init", sub.T) : k \in EffectRuns}
            /\ UNCHANGED isLoading
    /\ delivered' = NoDelivery
    /\ emitted' = <<>>
    /\ loginResult' = NoOutcome
    /\ UNCHANGED <<strictMode, refreshPromise, reqs, loginCall, storeLog, user,
                   DocumentsPage, UploadPage>>

\* AuthProvider: isAuthenticated: Boolean(accessToken)
isAuthenticated == authState # Null

\* AuthProvider.logout, reached from LogoutPage, a protected route
Logout ==
    /\ authMounted
    /\ ~isLoading
    /\ authState # Null
    /\ Commit(clearTokens(Store))
    /\ delivered' = NoDelivery
    /\ emitted' = <<>>
    /\ loginResult' = NoOutcome
    /\ UNCHANGED <<strictMode, tokenListeners, refreshPromise, refreshCalls,
                   reqs, loginCall, authMounted, isLoading, storeLog, user, DocumentsPage,
                   UploadPage>>

\* ------------------------------------------------------------------ login
\* LoginPage.handleSubmit -> login -> loginWithCredentials, up to the await;
\* the page leaves as soon as isAuthenticated, and disables the button while
\* a submission is pending
LoginSubmit ==
    /\ authMounted
    /\ authState = Null
    /\ loginCall.pc = "idle"
    /\ loginCall' = [pc |-> "inflight",
                     auth |-> Dispatch(authApi, Null, getAccessToken(Store))]
    /\ delivered' = NoDelivery
    /\ emitted' = <<>>
    /\ loginResult' = NoOutcome
    /\ UNCHANGED <<strictMode, accessToken, storedRefresh, tokenListeners, heard,
                   refreshPromise, refreshCalls, reqs, authMounted, authState,
                   isLoading, storeLog, user, DocumentsPage,
                   UploadPage>>

LoginStoresAccessOnly(T, access, refresh) == setAccessToken(T, access)

\* loginWithCredentials, the success path: const { access, refresh } =
\* response.data; setAccessToken(access); setRefreshToken(refresh)
loginStoresTokens(T, access, refresh) ==
    setRefreshToken(setAccessToken(T, access), refresh)

\* loginWithCredentials after the await
LoginResponse(ans) ==
    /\ loginCall.pc = "inflight"
    /\ loginCall' = [pc |-> "idle", auth |-> Null]
    /\ IF ans = "tokens"
       THEN /\ Commit(loginStoresTokens(Store, NewAccessToken,
                                        NewRefreshToken))
            /\ loginResult' = Outcome("authApi", 0, 1, 200)
            /\ emitted' = <<>>
       ELSE /\ loginResult' = Outcome("authApi", 0, 1, 401)
            /\ emitted' = AuthCallEvents(authApi, 0, 401, TOKEN_URL, FALSE,
                                         getRefreshToken(Store))
            /\ UNCHANGED <<accessToken, storedRefresh, authState, heard>>
    /\ delivered' = NoDelivery
    /\ UNCHANGED <<strictMode, tokenListeners, refreshPromise, refreshCalls,
                   reqs, authMounted, isLoading, storeLog, user, DocumentsPage,
                   UploadPage>>

\* ------------------------------------------------------------ UserProvider
\* the URLs fetchMe reaches
MeUrls == {ME_URL, PROFILE_URL}

\* normalizeUser(response): what the provider keeps of the answer
Profiles ==
    {[isAdmin |-> TRUE, sector |-> Null],
     [isAdmin |-> FALSE, sector |-> <<"sector", 1>>]}

\* the profiles the backend may answer a request with
ProfilesFor(url, status) ==
    IF url \in MeUrls /\ status = 200 THEN Profiles ELSE {Null}

\* fetchMe, catch (error): a 404 of /api/me/ makes it send GET
\* /api/profile/; any other error is thrown again
fetchMeFallsBack(url, status) == url = ME_URL /\ status = 404

\* the requests after the caller of request r was handed an error the
\* interceptor does not treat
fetchMeFallback(R, r, status, T) ==
    IF fetchMeFallsBack(R[r].url, status)
    THEN [R EXCEPT ![r] =
             [NewRequest EXCEPT !.pc = "sent", !.url = PROFILE_URL, !.sends = 1,
                                !.auth = Dispatch(api, Null, getAccessToken(T))]]
    ELSE [R EXCEPT ![r] = NewRequest]

\* the calls of fetchMe that end with the deliveries D of a step, R being
\* the requests before it
FetchMeEnds(R, D) ==
    {r \in Reqs : /\ D[r].via # "none"
                  /\ R[r].url \in MeUrls
                  /\ ~fetchMeFallsBack(R[r].url, D[r].result.status)}

LoadUserKeepsProfile(U, R, D, profile) ==
    IF \E r \in FetchMeEnds(R, D) : D[r].via = "response" THEN profile ELSE U

\* UserProvider.loadUser after await fetchMe(): setUser(normalizeUser(
\* response)), or catch { setUser(null) }
loadUserSettles(U, R, D, profile) ==
    IF FetchMeEnds(R, D) = {} THEN U
    ELSE IF \E r \in FetchMeEnds(R, D) : D[r].via = "response" THEN profile
    ELSE Null

\* UserProvider: isAdmin: user?.isAdmin ?? false
isAdmin == user # Null /\ user.isAdmin

\* UserProvider: sector: user?.sector ?? null
sector == IF user = Null THEN Null ELSE user.sector

\* --------------------------------------------------------- shared client
\* a page calls one of the wrapper functions: the request leaves through the
\* request interceptor, in the first free slot
IssueRequest(r, url) ==
    /\ authMounted
    /\ reqs[r].pc = "idle"
    /\ \A q \in Reqs : q < r => reqs[q].pc # "idle"
    /\ reqs' = [reqs EXCEPT ![r] =
           [@ EXCEPT !.pc = "sent", !.url = url, !.sends = 1,
                     !.auth = Dispatch(api, Null, getAccessToken(Store))]]
    /\ delivered' = NoDelivery
    /\ emitted' = <<>>
    /\ loginResult' = NoOutcome
    /\ UNCHANGED <<strictMode, accessToken, storedRefresh, tokenListeners, heard,
                   refreshPromise, refreshCalls, loginCall, authMounted,
                   authState, isLoading, storeLog, user, DocumentsPage,
                   UploadPage>>

\* the refresh POST the promise refreshPromise belongs to
PendingRefresh == CHOOSE c \in refreshCalls : c.id = refreshPromise

\* the response to request r arrives: (response) => response, or the rejected
\* handler up to its await
ApiResponse(r, status) ==
    LET error == Outcome("api", r, reqs[r].sends, status)
        branch == interceptorBranch(status, reqs[r].retry, reqs[r].url,
                                    getRefreshToken(Store))
        done == [reqs EXCEPT ![r] = NewRequest]
        id == Fresh({c.id : c \in refreshCalls})
    IN
    /\ reqs[r].pc = "sent"
    /\ IF status = 200
       THEN /\ reqs' = done
            /\ delivered' = [NoDelivery EXCEPT ![r] =
                   Delivery("response", error, reqs[r].sends)]
            /\ emitted' = <<>>
            /\ UNCHANGED <<accessToken, storedRefresh, authState, heard,
                           refreshPromise, refreshCalls>>
       ELSE CASE branch = "no_refresh_token" ->
                 /\ Commit(clearTokens(Store))
                 /\ emitted' = <<AuthRequired("api", r, status)>>
                 /\ reqs' = done
                 /\ delivered' = [NoDelivery EXCEPT ![r] =
                        Delivery("no_refresh_token", error, reqs[r].sends)]
                 /\ UNCHANGED <<refreshPromise, refreshCalls>>
              [] branch = "refresh" ->
                 /\ IF mustStartRefresh(refreshPromise)
                    THEN /\ refreshCalls' = refreshCalls \cup
                                {[RefreshPost(id, "interceptor", Store)
                                      EXCEPT !.waiters = <<r>>]}
                         /\ refreshPromise' = id
                    ELSE /\ refreshCalls' = (refreshCalls \ {PendingRefresh}) \cup
                                {[PendingRefresh EXCEPT !.waiters = Append(@, r)]}
                         /\ UNCHANGED refreshPromise
                 /\ reqs' = [reqs EXCEPT ![r] =
                        [@ EXCEPT !.pc = "waiting", !.retry = TRUE,
                                  !.waitOn = refreshPromise', !.error = error]]
                 /\ delivered' = NoDelivery
                 /\ emitted' = <<>>
                 /\ UNCHANGED <<accessToken, storedRefresh, authState, heard>>
              [] branch = "auth_required" ->
                 /\ emitted' = <<AuthRequired("api", r, status)>>
                 /\ reqs' = done
                 /\ delivered' = [NoDelivery EXCEPT ![r] =
                        Delivery("auth_required", error, reqs[r].sends)]
                 /\ UNCHANGED <<accessToken, storedRefresh, authState, heard,
                                refreshPromise, refreshCalls>>
              [] OTHER ->
                 /\ reqs' = fetchMeFallback(reqs, r, status, Store)
                 /\ delivered' = [NoDelivery EXCEPT ![r] =
                        Delivery("reject", error, reqs[r].sends)]
                 /\ emitted' = <<>>
                 /\ UNCHANGED <<accessToken, storedRefresh, authState, heard,
                                refreshPromise, refreshCalls>>
    /\ \E profile \in ProfilesFor(reqs[r].url, status) :
           user' = loadUserSettles(user, reqs, delivered', profile)
    /\ loginResult' = NoOutcome
    /\ UNCHANGED <<strictMode, tokenListeners, loginCall, authMounted,
                   isLoading, storeLog,
                   DocumentsPage, UploadPage>>

\* the handlers awaiting a refresh that failed or brought no access token
\* resume in await order: clearTokens(); emitAuthRequired({ status });
\* return Promise.reject(error). S is [T, reqs, delivered, emitted].
RECURSIVE FailWaiters(_, _, _)
FailWaiters(S, ws, refreshError) ==
    IF ws = <<>> THEN S
    ELSE LET r == Head(ws)
             error == propagatedError(S.reqs[r].error, refreshError)
         IN FailWaiters(
                [T |-> clearTokens(S.T),
                 emitted |-> Append(S.emitted, AuthRequired("api", r, error.status)),
                 delivered |-> [S.delivered EXCEPT ![r] =
                                   Delivery("refresh_failed", error, S.reqs[r].sends)],
                 reqs |-> [S.reqs EXCEPT ![r] = NewRequest]],
                Tail(ws), refreshError)

RetryKeepsHeader(config, newAccess, T) ==
    Dispatch(api, config, getAccessToken(T))

\* originalRequest.headers.Authorization = `Bearer ${newAccess}`;
\* return api(originalRequest): the header the retry leaves with
retryHeader(config, newAccess, T) ==
    Dispatch(api, Bearer(newAccess), getAccessToken(T))

\* the handlers awaiting a refresh that returned newAccess resume
RECURSIVE RetryWaiters(_, _, _, _)
RetryWaiters(R, ws, newAccess, T) ==
    IF ws = <<>> THEN R
    ELSE LET r == Head(ws)
         IN RetryWaiters(
                [R EXCEPT ![r] =
                    [@ EXCEPT !.pc = "sent", !.sends = @ + 1, !.waitOn = 0,
                              !.error = NoOutcome,
                              !.auth = retryHeader(R[r].auth, newAccess, T)]],
                Tail(ws), newAccess, T)

InitializeWithoutFinally(T, threw, loading) ==
    [T |-> IF threw THEN clearTokens(T) ELSE T,
     isLoading |-> IF threw THEN loading ELSE FALSE]

\* AuthProvider.initialize after await refreshAccessToken():
\* catch { clearTokens() } finally { setIsLoading(false) }
initializeSettles(T, threw, loading) ==
    [T |-> IF threw THEN clearTokens(T) ELSE T, isLoading |-> FALSE]

KeepRefreshPromise(promise) == promise

\* .finally(() => { refreshPromise = null; }): the callback runs when
\* refreshAccessToken() settles, before the promise the handlers await does
resetRefreshPromise(promise) == 0

\* ---------------------------------------------------------------- refresh
\* The answer to refresh POST c arrives: refreshAccessToken() after its
\* await, then whoever awaited it: AuthProvider.initialize, or the finally
\* callback that resets refreshPromise followed by the waiting handlers.
\* The POSTs of a double mount are alike, so they are answered in id order.
RefreshResponse(c, ans) ==
    LET end == refreshAccessTokenEnd(Store, ans)
        ok == ~end.threw
        newAccess == end.value
        status == IF ans = "401" THEN 401 ELSE IF ans = "500" THEN 500 ELSE 200
        refreshError == Outcome("authApi", c.id, 1, status)
        T0 == Store
        T2 == end.T
        ownEvents == IF ok THEN <<>>
                     ELSE AuthCallEvents(authApi, c.id, status, REFRESH_URL,
                                         FALSE, getRefreshToken(T0))
    IN
    /\ c \in refreshCalls
    /\ c.by = "init" => \A d \in refreshCalls : d.by = "init" => c.id <= d.id
    /\ refreshCalls' = refreshCalls \ {c}
    /\ IF c.by = "init"
       THEN /\ Commit(initializeSettles(T2, ~ok, isLoading).T)
            /\ isLoading' = initializeSettles(T2, ~ok, isLoading).isLoading
            /\ emitted' = ownEvents
            /\ delivered' = NoDelivery
            /\ UNCHANGED <<reqs, refreshPromise>>
       ELSE /\ refreshPromise' = resetRefreshPromise(refreshPromise)
            /\ UNCHANGED isLoading
            /\ IF ok /\ newAccess # Null
               THEN /\ Commit(T2)
                    /\ reqs' = RetryWaiters(reqs, c.waiters, newAccess, T2)
                    /\ emitted' = ownEvents
                    /\ delivered' = NoDelivery
               ELSE LET S == FailWaiters(
                                 [T |-> T2, reqs |-> reqs, emitted |-> ownEvents,
                                  delivered |-> NoDelivery],
                                 c.waiters, refreshError)
                    IN /\ Commit(S.T)
                       /\ reqs' = S.reqs
                       /\ emitted' = S.emitted
                       /\ delivered' = S.delivered
    /\ user' = loadUserSettles(user, reqs, delivered', Null)
    /\ loginResult' = NoOutcome
    /\ UNCHANGED <<strictMode, tokenListeners, loginCall, authMounted,
                   storeLog,
                   DocumentsPage, UploadPage>>

\* ------------------------------------------------------------------- Spec
Next ==
    \/ AuthProviderMount
    \/ Logout
    \/ LoginSubmit
    \/ \E ans \in LoginAnswers : LoginResponse(ans)
    \/ \E r \in Reqs, url \in ApiUrls : IssueRequest(r, url)
    \/ \E r \in Reqs, status \in ApiStatuses : ApiResponse(r, status)
    \/ \E c \in refreshCalls, ans \in RefreshAnswers : RefreshResponse(c, ans)

Spec == Init /\ [][Next]_vars

\* setEnabledFields(response.enabled_fields || []): an array, never null
EnabledFields == <<"enabled_fields">>

\* poll() of UploadPage after its await, for the round p: the same guards,
\* around setUploads(prev.map(... updates.find(doc.id === documentId) ...))
uploadPollSettles(P, p, updates, ok) ==
    IF ~p.isActive THEN P
    ELSE IF ok
    THEN setUploads(P,
             [i \in 1..Len(P.uploads) |->
                 IF \E u \in updates : u.id = P.uploads[i].documentId
                 THEN [P.uploads[i] EXCEPT !.status =
                          (CHOOSE u \in updates :
                               u.id = P.uploads[i].documentId).status]
                 ELSE P.uploads[i]])
    ELSE [P EXCEPT !.error = ErrorMessage("uploads")]

\* nextLocalId(): ids no entry and no snapshot in use carries
LocalIds == 1..(MaxFiles * (MaxRuns + 1))

UsedLocalIds(P) ==
    UNION {{P.runs[r].items[k].localId : k \in 1..Len(P.runs[r].items)} :
              r \in 1..Len(P.runs)}

\* files.map((file) => ({ localId: nextLocalId(), file, status: "READY" }))
nextUploads(P, n) ==
    LET free == LocalIds \ UsedLocalIds(P)
        nth(i) == CHOOSE k \in free : Cardinality({m \in free : m < k}) = i - 1
    IN [i \in 1..n |-> UploadItem(nth(i), "READY", 0)]

\* prev.map((entry) => entry.localId === localId ? { ...entry, status } :
\* entry)
markStatus(uploads, localId, status) ==
    [i \in 1..Len(uploads) |->
        IF uploads[i].localId = localId
        THEN [uploads[i] EXCEPT !.status = status]
        ELSE uploads[i]]

\* the loop of handleUpload for the run, from index from of its snapshot on:
\* the setUploads that marks the next READY item UPLOADING and the upload
\* the run then awaits, or after the loop setIsUploading(false). uploads:
\* the list after the setUploads (set: was there one) of the same turn,
\* which render together. The setters act only while the instance of the
\* run is mounted.
uploadLoop(P, uploads, set, run, from) ==
    LET pos == nextReady(run.items, from)
        Q == IF pos = 0 THEN P
             ELSE [P EXCEPT !.runs = Append(@, [run EXCEPT !.pos = pos])]
        R == IF pos = 0 THEN [Q EXCEPT !.isUploading = FALSE] ELSE Q
    IN IF ~run.live THEN Q
       ELSE IF pos # 0
       THEN setUploads(R, markStatus(uploads, run.items[pos].localId,
                                     "UPLOADING"))
       ELSE IF set THEN setUploads(R, uploads)
       ELSE R

\* ---------------------------------------------------- DocumentsPage runs
\* The pages sit below ProtectedRoute; their requests go through api, and
\* what comes back to the page is a result or an error.
PageFrame ==
    UNCHANGED <<strictMode, accessToken, storedRefresh, tokenListeners, heard,
                refreshPromise, refreshCalls, reqs, loginCall, authMounted,
                authState, isLoading, delivered, emitted, loginResult,
                storeLog, user>>

\* the lists of documents fetchDocuments may return
DocumentLists ==
    UNION {{{Document(i, f[i]) : i \in S} : f \in [S -> DocumentStatuses]} :
              S \in SUBSET DocIds}

\* the route renders DocumentsPage: a new instance, whose mount effects call
\* loadPresets() and loadDocuments() (twice each under StrictMode); rounds
\* of an earlier instance may still be in flight
DocumentsMount ==
    LET P0 == [NewDocumentsPage EXCEPT !.mounted = TRUE,
                                       !.polls = DocumentsPage.polls]
        P1 == loadDocuments(loadPresets(P0))
    IN
    /\ ~DocumentsPage.mounted
    /\ ~UploadPage.mounted
    /\ DocumentsPage' = IF strictMode THEN loadDocuments(loadPresets(P1))
                        ELSE P1
    /\ UNCHANGED UploadPage
    /\ PageFrame

\* the route leaves DocumentsPage: the cleanup of the polling effect runs;
\* the setters of the instance do nothing from now on, so its other calls
\* in flight are forgotten
DocumentsUnmount ==
    /\ DocumentsPage.mounted
    /\ DocumentsPage' = [NewDocumentsPage EXCEPT
                             !.polls = pollingCleanup(DocumentsPage).polls]
    /\ UNCHANGED UploadPage
    /\ PageFrame

\* loadPresets() after its await
PresetsSettle(ok) ==
    /\ DocumentsPage.mounted
    /\ DocumentsPage.presetLoads > 0
    /\ DocumentsPage' =
           [DocumentsPage EXCEPT
                !.presetLoads = @ - 1,
                !.error = IF ok THEN @ ELSE ErrorMessage("presets"),
                !.presetsLoading = FALSE]
    /\ UNCHANGED UploadPage
    /\ PageFrame

\* the answer to the list load loads[i] arrives
LoadDocumentsSettles(i, result, ok) ==
    LET P == loadDocumentsSettles(
                 [DocumentsPage EXCEPT !.loads = RemoveAt(@, i)], result, ok)
    IN
    /\ DocumentsPage.mounted
    /\ i \in 1..Len(DocumentsPage.loads)
    /\ Len(P.polls) <= MaxPolls
    /\ DocumentsPage' = P
    /\ UNCHANGED UploadPage
    /\ PageFrame

\* the render after a handler changed appliedFilters, page or pageSize
Rerender(Q) ==
    LET P == loadEffect(DocumentsPage, Q)
    IN
    /\ DocumentsPage.mounted
    /\ Len(P.loads) <= MaxLoads
    /\ DocumentsPage' = P
    /\ UNCHANGED UploadPage
    /\ PageFrame

\* FiltersBar's form is submitted (its buttons are disabled while loading ||
\* presetsLoading) with the object filters: the applied one when the form
\* was not touched, a new one otherwise
handleApplyFilters(filters) ==
    /\ ~DocumentsPage.loading
    /\ ~DocumentsPage.presetsLoading
    /\ Rerender([DocumentsPage EXCEPT !.page = 1, !.appliedFilters = filters])

handleClearFilters ==
    /\ ~DocumentsPage.loading
    /\ ~DocumentsPage.presetsLoading
    /\ Rerender([DocumentsPage EXCEPT !.appliedFilters = initialFilters,
                                      !.selectedIds = {}, !.page = 1])

\* "Tentar novamente", rendered while error is set
handleRetry ==
    /\ DocumentsPage.error # Null
    /\ DocumentsPage.presetLoads < MaxLoads
    /\ Rerender([loadPresets(DocumentsPage) EXCEPT
                     !.appliedFilters = OwnFilters(@, @.query)])

\* "Próxima", disabled while loading || !canGoNext
handleNextPage ==
    /\ ~DocumentsPage.loading
    /\ canGoNext(DocumentsPage)
    /\ DocumentsPage.page < MaxPage
    /\ Rerender([DocumentsPage EXCEPT !.page = @ + 1])

\* "Anterior", disabled while loading || !canGoPrevious
handlePreviousPage ==
    /\ ~DocumentsPage.loading
    /\ canGoPrevious(DocumentsPage)
    /\ Rerender([DocumentsPage EXCEPT !.page = IF @ > 1 THEN @ - 1 ELSE 1])

\* the page-size select, disabled while loading
handlePageSizeChange(value) ==
    /\ ~DocumentsPage.loading
    /\ Rerender([DocumentsPage EXCEPT !.pageSize = value, !.page = 1])

\* the checkbox of a row of the table
handleToggleSelect(id) ==
    /\ DocumentsPage.mounted
    /\ id \in {d.id : d \in DocumentsPage.documents}
    /\ DocumentsPage' =
           [DocumentsPage EXCEPT
                !.selectedIds = IF id \in @ THEN @ \ {id} ELSE @ \cup {id}]
    /\ UNCHANGED UploadPage
    /\ PageFrame

\* the select-all button, disabled while documents.length === 0 || isLoading
handleToggleSelectAll ==
    LET allIds == {d.id : d \in DocumentsPage.documents}
    IN
    /\ DocumentsPage.mounted
    /\ DocumentsPage.documents # {}
    /\ ~DocumentsPage.loading
    /\ DocumentsPage' =
           [DocumentsPage EXCEPT
                !.selectedIds = IF allIds \subseteq @ THEN {}
                                ELSE @ \cup allIds]
    /\ UNCHANGED UploadPage
    /\ PageFrame

\* handleReprocess(id) up to its await; the button is disabled while loading
handleReprocess(id) ==
    /\ DocumentsPage.mounted
    /\ ~DocumentsPage.loading
    /\ id \in {d.id : d \in DocumentsPage.documents}
    /\ id \notin DocumentsPage.reprocesses
    /\ DocumentsPage' = [DocumentsPage EXCEPT !.error = Null,
                                              !.reprocesses = @ \cup {id}]
    /\ UNCHANGED UploadPage
    /\ PageFrame

\* handleReprocess(id) after its await
ReprocessSettles(id, status, ok) ==
    LET Q == [DocumentsPage EXCEPT !.reprocesses = @ \ {id}]
        P == IF ok
             THEN setDocuments(Q, {IF d.id = id THEN Document(id, status)
                                   ELSE d : d \in Q.documents})
             ELSE [Q EXCEPT !.error = ErrorMessage("reprocessar")]
    IN
    /\ DocumentsPage.mounted
    /\ id \in DocumentsPage.reprocesses
    /\ Len(P.polls) <= MaxPolls
    /\ DocumentsPage' = P
    /\ UNCHANGED UploadPage
    /\ PageFrame

\* the timer of the polling effect fires: poll()
DocumentsPollTick ==
    /\ DocumentsPage.interval.on
    /\ Len(DocumentsPage.polls) < MaxPolls
    /\ DocumentsPage' =
           [DocumentsPage EXCEPT
                !.polls = Append(@, Poll(DocumentsPage.interval.ids))]
    /\ UNCHANGED UploadPage
    /\ PageFrame

\* the answers to the round polls[i] have all arrived, or one has failed
DocumentsPollSettles(i, updates, ok) ==
    /\ i \in 1..Len(DocumentsPage.polls)
    /\ AnswersRound(updates, DocumentsPage.polls[i].ids)
    /\ DocumentsPage' =
           pollSettles([DocumentsPage EXCEPT !.polls = RemoveAt(@, i)],
                       DocumentsPage.polls[i], updates, ok)
    /\ UNCHANGED UploadPage
    /\ PageFrame

\* ------------------------------------------------------- UploadPage runs
\* the route renders UploadPage: a new instance, whose effect calls
\* loadEnabledFields() (twice under StrictMode); rounds and runs of an
\* earlier instance may still be in progress
UploadMount ==
    /\ ~UploadPage.mounted
    /\ ~DocumentsPage.mounted
    /\ UploadPage' = [NewUploadPage EXCEPT
                          !.mounted = TRUE,
                          !.fieldLoads = Cardinality(EffectRuns),
                          !.polls = UploadPage.polls,
                          !.runs = UploadPage.runs]
    /\ UNCHANGED DocumentsPage
    /\ PageFrame

\* the route leaves UploadPage: the cleanup of the polling effect runs; the
\* loop of handleUpload goes on, its setters do nothing from now on
UploadUnmount ==
    /\ UploadPage.mounted
    /\ UploadPage' =
           [NewUploadPage EXCEPT
                !.polls = pollingCleanup(UploadPage).polls,
                !.runs = [r \in 1..Len(UploadPage.runs) |->
                             [UploadPage.runs[r] EXCEPT !.live = FALSE]]]
    /\ UNCHANGED DocumentsPage
    /\ PageFrame

\* loadEnabledFields() after its await
FieldsSettle(ok) ==
    /\ UploadPage.mounted
    /\ UploadPage.fieldLoads > 0
    /\ UploadPage' =
           [UploadPage EXCEPT
                !.fieldLoads = @ - 1,
                !.enabledFields = IF ok THEN EnabledFields ELSE Null]
    /\ UNCHANGED DocumentsPage
    /\ PageFrame

\* the file input changes to a selection of n files; the input is not
\* disabled while uploading
handleFileChange(n) ==
    /\ UploadPage.mounted
    /\ UploadPage' = setUploads(UploadPage, nextUploads(UploadPage, n))
    /\ UNCHANGED DocumentsPage
    /\ PageFrame

\* "Enviar", disabled while uploads.length === 0 || isUploading ||
\* enabledFields === null: handleUpload() up to its first await
handleUpload ==
    /\ UploadPage.mounted
    /\ Len(UploadPage.uploads) > 0
    /\ ~UploadPage.isUploading
    /\ UploadPage.enabledFields # Null
    /\ Len(UploadPage.runs) < MaxRuns
    /\ Len(UploadPage.polls) < MaxPolls
    /\ UploadPage' =
           uploadLoop([UploadPage EXCEPT !.isUploading = TRUE,
                                         !.error = Null],
                      UploadPage.uploads, FALSE,
                      UploadRun(UploadPage.uploads, 0), 1)
    /\ UNCHANGED DocumentsPage
    /\ PageFrame

\* the answer to the upload the run runs[r] awaits arrives: the setUploads
\* of the try block (response.status, response.id) or of the catch, then
\* the loop goes on
UploadSettles(r, status, ok) ==
    LET run == UploadPage.runs[r]
        item == run.items[run.pos]
        P == [UploadPage EXCEPT !.runs = RemoveAt(@, r)]
        uploads == IF ok
                   THEN markUpload(P.uploads, item.localId, status,
                                   item.localId)
                   ELSE markStatus(P.uploads, item.localId, "UPLOAD_FAILED")
        Q == uploadLoop(P, uploads, TRUE, run, run.pos + 1)
    IN
    /\ r \in 1..Len(UploadPage.runs)
    /\ Len(Q.polls) <= MaxPolls
    /\ UploadPage' = Q
    /\ UNCHANGED DocumentsPage
    /\ PageFrame

\* "Limpar lista", disabled while uploads.length === 0 || isUploading
handleClear ==
    /\ UploadPage.mounted
    /\ Len(UploadPage.uploads) > 0
    /\ ~UploadPage.isUploading
    /\ UploadPage' = [setUploads(UploadPage, <<>>) EXCEPT !.error = Null]
    /\ UNCHANGED DocumentsPage
    /\ PageFrame

\* the timer of the polling effect fires: poll()
UploadPollTick ==
    /\ UploadPage.interval.on
    /\ Len(UploadPage.polls) < MaxPolls
    /\ UploadPage' =
           [UploadPage EXCEPT
                !.polls = Append(@, Poll(UploadPage.interval.ids))]
    /\ UNCHANGED DocumentsPage
    /\ PageFrame

\* the answers to the round polls[i] have all arrived, or one has failed
UploadPollSettles(i, updates, ok) ==
    /\ i \in 1..Len(UploadPage.polls)
    /\ AnswersRound(updates, UploadPage.polls[i].ids)
    /\ UploadPage' =
           uploadPollSettles([UploadPage EXCEPT !.polls = RemoveAt(@, i)],
                             UploadPage.polls[i], updates, ok)
    /\ UNCHANGED DocumentsPage
    /\ PageFrame

\* ------------------------------------------------------- token-store driver
\* The exported token-store functions, called directly and in any order by a
\* driver that registers recording listeners.
StoreCall(op, arg) == [op |-> op, arg |-> arg]

DriverTokens == {Null, AccessTok(1)}

DriverFrame ==
    UNCHANGED <<strictMode, refreshPromise, refreshCalls, reqs, loginCall,
                authMounted, isLoading, delivered, emitted, loginResult,
                user, DocumentsPage,
                UploadPage>>

StoreSetAccessToken(v) ==
    /\ Len(storeLog) < MaxStoreCalls
    /\ Commit(setAccessToken(Store, v))
    /\ storeLog' = Append(storeLog, StoreCall("setAccessToken", v))
    /\ UNCHANGED tokenListeners
    /\ DriverFrame

StoreSetRefreshToken(v) ==
    /\ Len(storeLog) < MaxStoreCalls
    /\ Commit(setRefreshToken(Store, v))
    /\ storeLog' = Append(storeLog, StoreCall("setRefreshToken", v))
    /\ UNCHANGED tokenListeners
    /\ DriverFrame

StoreClearTokens ==
    /\ Len(storeLog) < MaxStoreCalls
    /\ Commit(clearTokens(Store))
    /\ storeLog' = Append(storeLog, StoreCall("clearTokens", Null))
    /\ UNCHANGED tokenListeners
    /\ DriverFrame

StoreSubscribe(s) ==
    LET sub == subscribeAccessToken(Store, tokenListeners, SpyListener(s))
    IN
    /\ Len(storeLog) < MaxStoreCalls
    /\ SpyListener(s) \notin tokenListeners
    /\ tokenListeners' = sub.ls
    /\ Commit(sub.T)
    /\ storeLog' = Append(storeLog, StoreCall("subscribe", s))
    /\ DriverFrame

StoreUnsubscribe(s) ==
    /\ Len(storeLog) < MaxStoreCalls
    /\ SpyListener(s) \in tokenListeners
    /\ tokenListeners' = unsubscribe(tokenListeners, SpyListener(s))
    /\ storeLog' = Append(storeLog, StoreCall("unsubscribe", s))
    /\ UNCHANGED <<accessToken, storedRefresh, authState, heard>>
    /\ DriverFrame

NextStore ==
    \/ AuthProviderMount
    \/ \E v \in DriverTokens : StoreSetAccessToken(v)
    \/ \E v \in {Null, RefreshTok(2)} : StoreSetRefreshToken(v)
    \/ StoreClearTokens
    \/ \E s \in Spies : StoreSubscribe(s)
    \/ \E s \in Spies : StoreUnsubscribe(s)

SpecStore == Init /\ [][NextStore]_vars

\* ------------------------------------------------------- UserProvider runs
\* UserProvider.loadUser up to its await, run by the effect on accessToken
\* or through the context's refresh: with a token it calls fetchMe()
LoadUser(r) ==
    /\ authState # Null
    /\ IssueRequest(r, ME_URL)

\* UserProvider.loadUser without a token: setUser(null) and return
LoadUserSignedOut ==
    /\ authMounted
    /\ authState = Null
    /\ user' = Null
    /\ delivered' = NoDelivery
    /\ emitted' = <<>>
    /\ loginResult' = NoOutcome
    /\ UNCHANGED <<strictMode, accessToken, storedRefresh, tokenListeners, heard,
                   refreshPromise, refreshCalls, reqs, loginCall, authMounted,
                   authState, isLoading, storeLog,
                   DocumentsPage, UploadPage>>

\* what the backend may answer to a request of fetchMe
MeStatuses == {200, 401, 403, 404, 500}

\* the session of a returning user with the UserProvider: the requests are
\* those of fetchMe
NextUser ==
    \/ AuthProviderMount
    \/ \E r \in Reqs : LoadUser(r)
    \/ LoadUserSignedOut
    \/ \E r \in Reqs, status \in MeStatuses : ApiResponse(r, status)
    \/ \E c \in refreshCalls, ans \in RefreshAnswers : RefreshResponse(c, ans)

SpecUser == Init /\ [][NextUser]_vars

\* ------------------------------------------------------------ page reload
ReloadKeepsAccessToken(T) ==
    [T EXCEPT !.authState = getAccessToken(T),
              !.heard = [s \in Spies |-> <<>>]]

\* The store as a newly loaded page finds it: the module is evaluated again
\* (let accessToken = null), AuthProvider starts from
\* useState(getAccessToken()), and localStorage is what it was.
reloadedStore(T) ==
    [T EXCEPT !.accessToken = Null, !.authState = Null,
              !.heard = [s \in Spies |-> <<>>]]

\* A full page reload: the page's requests and their handlers are gone with
\* the old page, every module-level variable and component state starts
\* over, the providers mount again.
Reload ==
    /\ Commit(reloadedStore(Store))
    /\ tokenListeners' = {}
    /\ refreshPromise' = 0
    /\ refreshCalls' = {}
    /\ reqs' = [r \in Reqs |-> NewRequest]
    /\ loginCall' = [pc |-> "idle", auth |-> Null]
    /\ authMounted' = FALSE
    /\ isLoading' = TRUE
    /\ delivered' = NoDelivery
    /\ emitted' = <<>>
    /\ loginResult' = NoOutcome
    /\ user' = Null
    /\ DocumentsPage' = NewDocumentsPage
    /\ UploadPage' = NewUploadPage
    /\ UNCHANGED <<strictMode, storeLog>>

\* the session of one tab, one request at a time, across reloads
NextReload ==
    \/ AuthProviderMount
    \/ Logout
    \/ LoginSubmit
    \/ \E ans \in LoginAnswers : LoginResponse(ans)
    \/ \E url \in ApiUrls : IssueRequest(1, url)
    \/ \E status \in ApiStatuses : ApiResponse(1, status)
    \/ \E c \in refreshCalls, ans \in RefreshAnswers : RefreshResponse(c, ans)
    \/ Reload

SpecReload == Init /\ [][NextReload]_vars

\* ------------------------------------------------------------ one page load
\* some answer to some outstanding refresh POST arrives
RefreshSettles ==
    \E c \in refreshCalls, ans \in RefreshAnswers : RefreshResponse(c, ans)

\* some answer to an outstanding refresh POST of initialize arrives
InitRefreshSettles ==
    \E c \in refreshCalls, ans \in RefreshAnswers :
        c.by = "init" /\ RefreshResponse(c, ans)

\* the session of one page load, one request at a time
NextLoad ==
    \/ AuthProviderMount
    \/ Logout
    \/ LoginSubmit
    \/ \E ans \in LoginAnswers : LoginResponse(ans)
    \/ \E url \in ApiUrls : IssueRequest(1, url)
    \/ \E status \in ApiStatuses : ApiResponse(1, status)
    \/ RefreshSettles

\* React runs the mount effects of a rendered component, and every POST the
\* page sends is answered or fails in the end.
SpecLoad ==
    /\ Init
    /\ [][NextLoad]_vars
    /\ WF_vars(AuthProviderMount)
    /\ WF_vars(InitRefreshSettles)

\* ------------------------------------------------------- answered requests
\* some answer to request r arrives
RequestSettles(r) == \E status \in ApiStatuses : ApiResponse(r, status)

\* some answer to the refresh POST of the interceptor arrives
SharedRefreshSettles ==
    \E c \in refreshCalls, ans \in RefreshAnswers :
        c.by = "interceptor" /\ RefreshResponse(c, ans)

\* the requests of a returning user
NextAnswered ==
    \/ AuthProviderMount
    \/ \E r \in Reqs, url \in ApiUrls : IssueRequest(r, url)
    \/ \E r \in Reqs : RequestSettles(r)
    \/ InitRefreshSettles
    \/ SharedRefreshSettles

\* every network call is answered or fails in the end
SpecAnswered ==
    /\ Init
    /\ [][NextAnswered]_vars
    /\ \A r \in Reqs : WF_vars(RequestSettles(r))
    /\ WF_vars(SharedRefreshSettles)

\* ------------------------------------------------------ logout in a session
\* the answers of a backend that accepts every refresh token it is sent
AcceptedRefreshAnswers == {"access", "rotated"}

\* the statuses of a backend that only tells an expired access token
SessionStatuses == {200, 401}

\* loginWithCredentials returns: the tokens of the backend are stored
LoginSucceeds == LoginResponse("tokens")

\* A session in which the refresh calls all succeed: the tokens are cleared
\* by logout alone (or by a 401 when the refresh token is gone already).
NextLogout ==
    \/ AuthProviderMount
    \/ Logout
    \/ LoginSubmit
    \/ \E ans \in LoginAnswers : LoginResponse(ans)
    \/ \E r \in Reqs, url \in ApiUrls : IssueRequest(r, url)
    \/ \E r \in Reqs, status \in SessionStatuses : ApiResponse(r, status)
    \/ \E c \in refreshCalls, ans \in AcceptedRefreshAnswers :
           RefreshResponse(c, ans)

SpecLogout == Init /\ [][NextLogout]_vars

\* ---------------------------------------------------------- request driver
\* Requests sent through api with or without an Authorization header of
\* their own, while the access token is set and cleared; the log keeps the
\* header each request left with.
RequestSent(config, token, auth) ==
    [op |-> "request", arg |-> config, token |-> token, auth |-> auth]

\* the Authorization headers a caller may set on its request
DriverHeaders == {Null, Bearer(AccessTok(1)), Bearer(AccessTok(2))}

DriverRequest(config) ==
    /\ Len(storeLog) < MaxStoreCalls
    /\ storeLog' = Append(storeLog,
           RequestSent(config, getAccessToken(Store),
                       Dispatch(api, config, getAccessToken(Store))))
    /\ UNCHANGED <<accessToken, storedRefresh, authState, heard, tokenListeners>>
    /\ DriverFrame

NextRequest ==
    \/ \E v \in DriverTokens : StoreSetAccessToken(v)
    \/ \E config \in DriverHeaders : DriverRequest(config)

SpecRequest == Init /\ [][NextRequest]_vars

\* ---------------------------------------------------------- refresh driver
\* refreshAccessToken() called directly, with the store in any state; the
\* log keeps how each call ended.
RefreshCall(sent, ans, end) ==
    [op |-> "refreshAccessToken", sent |-> sent, ans |-> ans,
     threw |-> end.threw, value |-> end.value]

RefreshDriverFrame ==
    UNCHANGED <<strictMode, tokenListeners, refreshPromise, reqs, loginCall,
                authMounted, isLoading, delivered, emitted, loginResult,
                user, DocumentsPage,
                UploadPage>>

DriverRefresh ==
    LET start == refreshAccessTokenStart(
                     Fresh({c.id : c \in refreshCalls}), "driver", Store)
    IN /\ Len(storeLog) + Cardinality(refreshCalls) < MaxStoreCalls
       /\ refreshCalls' = refreshCalls \cup start.posts
       /\ storeLog' = IF start.sent THEN storeLog
                      ELSE Append(storeLog,
                               RefreshCall(FALSE, "none",
                                           [threw |-> FALSE, value |-> Null]))
       /\ UNCHANGED <<accessToken, storedRefresh, authState, heard>>
       /\ RefreshDriverFrame

DriverRefreshResponse(c, ans) ==
    LET end == refreshAccessTokenEnd(Store, ans)
    IN /\ c \in refreshCalls
       /\ c.by = "driver"
       /\ refreshCalls' = refreshCalls \ {c}
       /\ Commit(end.T)
       /\ storeLog' = Append(storeLog, RefreshCall(TRUE, ans, end))
       /\ RefreshDriverFrame

DriverClearTokens ==
    /\ Len(storeLog) + Cardinality(refreshCalls) < MaxStoreCalls
    /\ Commit(clearTokens(Store))
    /\ storeLog' = Append(storeLog, StoreCall("clearTokens", Null))
    /\ UNCHANGED refreshCalls
    /\ RefreshDriverFrame

NextRefresh ==
    \/ DriverRefresh
    \/ \E c \in refreshCalls, ans \in RefreshAnswers :
           DriverRefreshResponse(c, ans)
    \/ DriverClearTokens

SpecRefresh == Init /\ [][NextRefresh]_vars

\* ---------------------------------------------------------- storage driver
\* getRefreshToken and setRefreshToken called directly, in any order, in an
\* environment that may change from call to call; the log keeps how each
\* call ended.
StorageCall(op, mode, arg, end) ==
    [op |-> op, mode |-> mode, arg |-> arg, threw |-> end.threw,
     value |-> end.value]

StorageFrame ==
    UNCHANGED <<strictMode, accessToken, tokenListeners, heard, refreshPromise,
                refreshCalls, reqs, loginCall, authMounted, authState,
                isLoading, delivered, emitted, loginResult,
                user, DocumentsPage, UploadPage>>

StorageGet(mode) ==
    LET end == getRefreshTokenIn(mode, storedRefresh)
    IN /\ Len(storeLog) < MaxStoreCalls
       /\ storedRefresh' = end.item
       /\ storeLog' = Append(storeLog, StorageCall("getRefreshToken", mode, Null, end))
       /\ StorageFrame

StorageSet(mode, token) ==
    LET end == setRefreshTokenIn(mode, storedRefresh, token)
    IN /\ Len(storeLog) < MaxStoreCalls
       /\ storedRefresh' = end.item
       /\ storeLog' = Append(storeLog, StorageCall("setRefreshToken", mode, token, end))
       /\ StorageFrame

NextStorage ==
    \/ \E mode \in WindowModes : StorageGet(mode)
    \/ \E mode \in WindowModes, token \in {Null, RefreshTok(1), RefreshTok(2)} :
           StorageSet(mode, token)

SpecStorage == Init /\ [][NextStorage]_vars

\* ================================================================== claims
InterceptorCalls == {c \in refreshCalls : c.by = "interceptor"}

Reissued(r) == reqs[r].pc = "sent" /\ reqs[r].sends = 2

EventsFor(r, evs) == SelectSeq(evs, LAMBDA e : e.src = "api" /\ e.id = r)

\* C1: in every reachable state at most one POST to the refresh endpoint is
\* outstanding, whoever called refreshAccessToken (the 401 handler or
\* AuthProvider.initialize).
C1_SingleFlight == Cardinality(refreshCalls) <= 1

\* C2, as claimed: whatever the order of the 401 responses and the refresh
\* response, the requests that get a 401 share one refresh call (no refresh
\* POST of the interceptor is outstanding once one of the outstanding
\* requests has been re-issued), none is sent more than twice, and the
\* re-issued ones all carry the same access token.
C2_OneRefreshForAll ==
    /\ \A r \in Reqs : reqs[r].sends <= 2
    /\ (\E r \in Reqs : Reissued(r)) => InterceptorCalls = {}
    /\ \A r1, r2 \in Reqs :
           Reissued(r1) /\ Reissued(r2) => reqs[r1].auth = reqs[r2].auth

\* C2, amended: the 401 responses that arrive while a refresh started by the
\* interceptor is in flight share that one refresh call: the interceptor has
\* at most one POST outstanding, every waiting handler awaits it, a 401 that
\* arrives while it is pending sends no POST, no request is sent more than
\* twice, and the handlers that awaited the same refresh re-issue their
\* requests with the one access token that refresh stored.
C2_SharedWhileInFlight ==
    [][/\ Cardinality(InterceptorCalls') <= 1
       /\ \A r \in Reqs :
            /\ reqs'[r].sends <= 2
            /\ reqs'[r].pc = "waiting" =>
                  /\ refreshPromise' # 0
                  /\ reqs'[r].waitOn = refreshPromise'
                  /\ \E c \in InterceptorCalls' :
                        /\ c.id = refreshPromise'
                        /\ \E i \in 1..Len(c.waiters) : c.waiters[i] = r
            /\ (reqs[r].pc = "sent" /\ reqs'[r].pc = "waiting"
                   /\ refreshPromise # 0) =>
                  /\ refreshPromise' = refreshPromise
                  /\ {c.id : c \in refreshCalls'} = {c.id : c \in refreshCalls}
            /\ (reqs[r].pc = "waiting" /\ reqs'[r].pc = "sent") =>
                  /\ accessToken' # Null
                  /\ reqs'[r].auth = Bearer(accessToken')
      ]_vars

\* C2 witness: two handlers await the same refresh POST.
C2_Witness ==
    \E r1, r2 \in Reqs :
        /\ r1 # r2
        /\ reqs[r1].pc = "waiting" /\ reqs[r2].pc = "waiting"
        /\ reqs[r1].waitOn = reqs[r2].waitOn
        /\ Cardinality(InterceptorCalls) = 1

\* C3: no request is sent more than twice: a handler only awaits a refresh
\* for a request that was sent once, and whatever is handed back to a caller
\* comes from the first or the second sending.
C3_RetryAtMostOnce ==
    \A r \in Reqs :
        /\ reqs[r].sends <= 2
        /\ reqs[r].pc = "waiting" => reqs[r].sends = 1 /\ reqs[r].retry
        /\ Reissued(r) => reqs[r].retry
        /\ delivered[r].sends <= 2
        /\ (delivered[r].result.status = 401 /\ delivered[r].result.attempt = 2)
               => delivered[r].via = "auth_required" /\ reqs[r].pc = "idle"

\* C3 witness: the retry of a request was answered 401 and the request was
\* rejected.
C3_Witness ==
    \E r \in Reqs :
        /\ delivered[r].via = "auth_required"
        /\ delivered[r].result = Outcome("api", r, 2, 401)

AuthUrls == {TOKEN_URL, REFRESH_URL}

\* whatever the status, the _retry flag and the stored refresh token, the
\* response interceptor takes neither refresh branch for the two URLs
AuthUrlsNeverRefreshed ==
    \A url \in AuthUrls, retry \in BOOLEAN, status \in ApiStatuses,
       rt \in {Null, RefreshTok(1)} :
        /\ isAuthEndpoint(url)
        /\ interceptorBranch(status, retry, url, rt)
               \in {"auth_required", "reject"}

\* C4: a login or refresh POST never carries an Authorization header,
\* whatever access token the store holds; the response interceptor takes
\* neither refresh branch for their URLs; a failed login is not sent again
\* and starts no refresh; a refresh POST is only ever started at mount or by
\* the 401 of a request to another URL.
C4_AuthEndpointsBare ==
    [][/\ loginCall'.auth = Null
       /\ \A c \in refreshCalls' : c.auth = Null
       /\ AuthUrlsNeverRefreshed
       /\ (loginCall.pc = "inflight" /\ loginResult'.status = 401) =>
             /\ loginCall'.pc = "idle"
             /\ refreshCalls' = refreshCalls
             /\ refreshPromise' = refreshPromise
       /\ \A c \in refreshCalls' :
             (\A d \in refreshCalls : d.id # c.id) =>
                 \/ ~authMounted
                 \/ \E r \in Reqs : /\ reqs[r].pc = "sent"
                                    /\ reqs'[r].pc = "waiting"
                                    /\ ~isAuthEndpoint(reqs[r].url)
       /\ \A c \in refreshCalls :
             (\A d \in refreshCalls' : d.id # c.id) =>
                 \A d \in refreshCalls' : \E e \in refreshCalls : e.id = d.id
      ]_vars

\* C4 witness: a refresh POST is in flight without a header while the store
\* holds an access token, and a login POST is in flight.
C4_Witness ==
    /\ accessToken # Null
    /\ \E c \in refreshCalls : c.auth = Null
    /\ loginCall.pc = "inflight"

\* C5: when the handler of a first 401 rejects because no refresh token is
\* stored, or because the refresh failed or brought no access token, then
\* at that moment both tokens are null, the request was sent once only, it
\* is over, and exactly one AuthRequiredEvent was dispatched for it.
C5_FailureClearsBoth ==
    \A r \in Reqs :
        delivered[r].via \in {"no_refresh_token", "refresh_failed"} =>
            /\ accessToken = Null
            /\ storedRefresh = Null
            /\ delivered[r].sends = 1
            /\ delivered[r].result.attempt = 1
            /\ reqs[r].pc = "idle"
            /\ Len(EventsFor(r, emitted)) = 1

\* C5 witness: every outstanding request got a first 401, their handlers
\* awaited the same refresh, it failed, and they all reject in one step.
C5_Witness ==
    /\ \A r \in Reqs : delivered[r].via = "refresh_failed"
    /\ Len(emitted) = MaxReqs

\* the other path: a first 401 is rejected because no refresh token is stored
C5_WitnessNoRefreshToken ==
    \E r \in Reqs : delivered[r].via = "no_refresh_token"

\* C6: when the refresh fails, the caller of the original request gets the
\* 401 error of its own first attempt, not the error of the refresh POST,
\* and the event dispatched for it carries that 401.
C6_OriginalErrorPropagated ==
    \A r \in Reqs :
        delivered[r].via = "refresh_failed" =>
            /\ delivered[r].result = Outcome("api", r, 1, 401)
            /\ EventsFor(r, emitted) = <<AuthRequired("api", r, 401)>>

\* C6 witness: one handler awaited a refresh that failed.
C6_Witness ==
    \E r \in Reqs :
        /\ delivered[r].via = "refresh_failed"
        /\ emitted = <<AuthRequired("api", r, 401)>>
        /\ refreshPromise = 0

\* C7: when the refresh a handler awaits succeeds with a new access token,
\* the request is sent a second time, with Authorization set to that very
\* token, nothing is handed to the caller yet and no event is dispatched;
\* when the retry is answered 200 the caller gets that response and no
\* event is dispatched.
C7_TransparentRetry ==
    [][\A r \in Reqs :
         /\ (reqs[r].pc = "waiting" /\ reqs'[r].pc = "sent") =>
               /\ reqs'[r].sends = 2
               /\ accessToken' # Null
               /\ accessToken' # accessToken
               /\ reqs'[r].auth = Bearer(accessToken')
               /\ delivered'[r] = NotDelivered
               /\ emitted' = <<>>
         /\ (Reissued(r) /\ delivered'[r].result.status = 200) =>
               /\ delivered'[r] = Delivery("response", Outcome("api", r, 2, 200), 2)
               /\ emitted' = <<>>
      ]_vars

\* C7 witness: a caller got the response of the retry, with the tokens of
\* the session still in the store.
C7_Witness ==
    \E r \in Reqs :
        /\ delivered[r] = Delivery("response", Outcome("api", r, 2, 200), 2)
        /\ accessToken # Null
        /\ storedRefresh # Null

\* C8: no step clears one token without leaving both null: whenever the
\* access token or the refresh token goes from a value to null, both are
\* null afterwards.
C8_ClearedTogether ==
    [][(\/ accessToken # Null /\ accessToken' = Null
        \/ storedRefresh # Null /\ storedRefresh' = Null)
           => accessToken' = Null /\ storedRefresh' = Null]_vars

\* C8 witness: both tokens are null while a request that left with a Bearer
\* header is still outstanding: a session was cleared.
C8_Witness ==
    /\ accessToken = Null
    /\ storedRefresh = Null
    /\ \E r \in Reqs : reqs[r].pc = "sent" /\ reqs[r].auth # Null

\* ------------------------------------------------- claims on the token store
LastStoreCall == storeLog[Len(storeLog)]

\* the value a call of the driver passes to setAccessToken
SetValue(call) == IF call.op = "clearTokens" THEN Null ELSE call.arg

\* C9: each call setAccessToken(v) (clearTokens calls it with null) stores v
\* and calls every listener subscribed at that moment exactly once with v,
\* after v is stored, and calls no other listener; with the AuthProvider
\* subscribed, isAuthenticated is afterwards false exactly if v is null.
C9_NotifiesEachOnce ==
    [][(/\ Len(storeLog') = Len(storeLog) + 1
        /\ storeLog'[Len(storeLog')].op \in {"setAccessToken", "clearTokens"})
       => LET v == SetValue(storeLog'[Len(storeLog')])
          IN /\ accessToken' = v
             /\ \A s \in Spies :
                    heard'[s] = IF SpyListener(s) \in tokenListeners
                                THEN Append(heard[s], [arg |-> v, seen |-> v])
                                ELSE heard[s]
             /\ (\E l \in tokenListeners : l.kind = "auth") =>
                    isAuthenticated' = (v # Null)
      ]_vars

\* C9 witness: setAccessToken(null) has just been called with the
\* AuthProvider and a recording listener subscribed, after a token was set.
C9_Witness ==
    /\ Len(storeLog) >= 3
    /\ LastStoreCall.op = "setAccessToken"
    /\ LastStoreCall.arg = Null
    /\ \E l \in tokenListeners : l.kind = "auth"
    /\ \E s \in Spies :
          /\ SpyListener(s) \in tokenListeners
          /\ Len(heard[s]) = 2
          /\ heard[s][1].arg # Null
          /\ heard[s][2] = [arg |-> Null, seen |-> Null]
    /\ ~isAuthenticated

\* what listener s must have been called with after the calls in log, when
\* it is called on the setAccessToken calls made while it is subscribed and
\* never else
RECURSIVE ExpectedHeard(_, _, _)
ExpectedHeard(log, s, subscribed) ==
    IF log = <<>> THEN <<>>
    ELSE LET call == Head(log)
             mine == call.op \in {"subscribe", "unsubscribe"} /\ call.arg = s
             sets == call.op \in {"setAccessToken", "clearTokens"}
             now == IF mine THEN call.op = "subscribe" ELSE subscribed
         IN (IF sets /\ subscribed
             THEN <<[arg |-> SetValue(call), seen |-> SetValue(call)]>>
             ELSE <<>>)
            \o ExpectedHeard(Tail(log), s, now)

\* C10: a listener is not called when it is registered, is called on every
\* setAccessToken call made from then until its unsubscribe function is
\* called, and is not called after that.
C10_SubscriptionWindow ==
    \A s \in Spies : heard[s] = ExpectedHeard(storeLog, s, FALSE)

\* C10 witness: a listener was registered while a token was set, heard the
\* next setAccessToken call, was unsubscribed, and did not hear the call
\* after that.
C10_Witness ==
    \E s \in Spies :
        /\ Len(storeLog) = 4
        /\ storeLog[1].op = "subscribe"
        /\ storeLog[1].arg = s
        /\ storeLog[2].op = "setAccessToken"
        /\ storeLog[3].op = "unsubscribe"
        /\ storeLog[3].arg = s
        /\ storeLog[4].op = "setAccessToken"
        /\ Len(heard[s]) = 1
        /\ heard[s][1].arg = storeLog[2].arg

\* --------------------------------------------------- claims on the storage
\* C11: getRefreshToken and setRefreshToken never throw, whatever the
\* storage does, and when the storage cannot be read getRefreshToken
\* returns null.
C11_StorageNeverThrows ==
    \A i \in 1..Len(storeLog) :
        /\ ~storeLog[i].threw
        /\ (storeLog[i].op = "getRefreshToken" /\ storeLog[i].mode # "works")
               => storeLog[i].value = Null

\* ------------------------------------------ claims on login and refresh
\* C12: when the login POST is answered with tokens, both are in the store
\* afterwards (the access token in memory and with the listeners, the
\* refresh token in the storage) and the caller gets the response; when
\* it fails, the caller gets the error of that very POST and the store is
\* as it was.
C12_LoginStoresOrRethrows ==
    [][loginCall.pc = "inflight" /\ loginCall'.pc = "idle" =>
         \/ /\ loginResult' = Outcome("authApi", 0, 1, 200)
            /\ accessToken' = NewAccessToken
            /\ storedRefresh' = NewRefreshToken
            /\ authState' = NewAccessToken
         \/ /\ loginResult' = Outcome("authApi", 0, 1, 401)
            /\ UNCHANGED <<accessToken, storedRefresh, authState>>
      ]_vars

\* C12 witness: a login has just succeeded and replaced a refresh token
\* that was in the storage.
C12_Witness ==
    /\ loginResult = Outcome("authApi", 0, 1, 200)
    /\ accessToken # Null
    /\ storedRefresh = RefreshTok(2)

\* C13: refreshAccessToken() called without a stored refresh token returns
\* null, throws nothing and sends no POST (and no POST is ever sent without
\* one); when its POST is answered with an access token, that token is in
\* the store and is the result, and the stored refresh token is the rotated
\* one if the answer brought one and is untouched if not; when its POST
\* fails it throws and both tokens are as they were.
C13_RefreshStoresOrRethrows ==
    [][/\ storedRefresh = Null => refreshCalls' \subseteq refreshCalls
       /\ (Len(storeLog') = Len(storeLog) + 1
              /\ storeLog'[Len(storeLog')].op = "refreshAccessToken") =>
            LET call == storeLog'[Len(storeLog')]
            IN /\ ~call.sent =>
                    /\ storedRefresh = Null
                    /\ ~call.threw /\ call.value = Null
                    /\ refreshCalls' = refreshCalls
                    /\ UNCHANGED <<accessToken, storedRefresh>>
               /\ (call.sent /\ call.ans \in {"access", "rotated"}) =>
                    /\ ~call.threw /\ call.value = NewAccessToken
                    /\ accessToken' = NewAccessToken
                    /\ storedRefresh' = IF call.ans = "rotated"
                                        THEN NewRefreshToken ELSE storedRefresh
               /\ (call.sent /\ call.ans = "empty") =>
                    /\ ~call.threw /\ call.value = Null
                    /\ UNCHANGED <<accessToken, storedRefresh>>
               /\ (call.sent /\ call.ans \in {"401", "500"}) =>
                    /\ call.threw
                    /\ UNCHANGED <<accessToken, storedRefresh>>
      ]_vars

\* C13 witness: a call answered with an access token alone left the stored
\* refresh token in place, and the call after the tokens were cleared
\* returned null without a POST.
C13_Witness ==
    /\ Len(storeLog) = 3
    /\ storeLog[1].op = "refreshAccessToken" /\ storeLog[1].ans = "access"
    /\ storeLog[2].op = "clearTokens"
    /\ storeLog[3].op = "refreshAccessToken" /\ ~storeLog[3].sent
    /\ refreshCalls = {}

\* --------------------------------------------------- claims on page load
\* the state a page without a session is in: no token in memory, none in
\* the storage, nobody authenticated, no refresh POST outstanding
NoSession ==
    /\ accessToken = Null
    /\ storedRefresh = Null
    /\ ~isAuthenticated
    /\ refreshCalls = {}

\* C14: a page reload leaves the access token null and the persisted
\* refresh token as it was; a page loaded with no persisted refresh token
\* is unauthenticated and sends no refresh POST, and stays so until a login
\* succeeds.
C14_ReloadKeepsStorageOnly ==
    [][/\ (authMounted /\ ~authMounted') =>
             /\ accessToken' = Null
             /\ ~isAuthenticated'
             /\ storedRefresh' = storedRefresh
             /\ refreshCalls' = {}
             /\ isLoading'
       /\ (NoSession /\ loginResult'.status # 200) => NoSession'
      ]_vars

\* C14 witness: a page that has not mounted yet finds in the storage a
\* refresh token that only an earlier page load can have put there.
C14_Witness ==
    /\ ~authMounted
    /\ accessToken = Null
    /\ storedRefresh = RefreshTok(2)

InitCalls == {c \in refreshCalls : c.by = "init"}

\* C15: isLoading is true before the mount and as long as no refresh POST
\* of initialize has been answered; it turns false only at a mount that
\* finds no refresh token or when such a POST is answered; when the answer
\* is a failure, both tokens are null once isLoading is false; and in every
\* run isLoading is false in the end.
C15_LoadingUntilInitialized ==
    /\ [](~authMounted => isLoading)
    /\ []((authMounted /\ Cardinality(InitCalls) = Cardinality(EffectRuns))
             => isLoading)
    /\ [][/\ (isLoading /\ ~isLoading') =>
                \/ ~authMounted /\ storedRefresh = Null /\ InitCalls' = {}
                \/ InitCalls' # InitCalls /\ InitCalls' \subseteq InitCalls
          /\ \A c \in InitCalls, ans \in {"401", "500"} :
                RefreshResponse(c, ans) =>
                    /\ ~isLoading'
                    /\ accessToken' = Null
                    /\ storedRefresh' = Null
                    /\ ~isAuthenticated'
         ]_vars
    /\ <>[](~isLoading)

\* C15 witness: under StrictMode the first refresh POST of initialize has
\* failed: isLoading is false, both tokens are null, the second POST is
\* still out.
C15_Witness ==
    /\ ~isLoading
    /\ accessToken = Null
    /\ storedRefresh = Null
    /\ Cardinality(InitCalls) = 1

\* ------------------------------------------------ claims on the UserProvider
\* C16: when a call of fetchMe fails, the UserProvider has no profile
\* afterwards (isAdmin is false, sector is null), and the token store is as
\* it was unless the interceptor cleared it on its own failure exits; and
\* isAdmin or a sector only ever appear in a step in which a call of fetchMe
\* succeeds.
C16_FetchFailureKeepsSession ==
    [][/\ \A r \in FetchMeEnds(reqs, delivered') :
            delivered'[r].via # "response" =>
                /\ user' = Null
                /\ ~isAdmin' /\ sector' = Null
                /\ delivered'[r].via \in {"reject", "auth_required"} =>
                       /\ UNCHANGED <<accessToken, storedRefresh, authState>>
                       /\ isAuthenticated' = isAuthenticated
       /\ ((~isAdmin /\ sector = Null) /\ (isAdmin' \/ sector' # Null)) =>
            \E r \in FetchMeEnds(reqs, delivered') :
                /\ delivered'[r].via = "response"
                /\ delivered'[r].result.status = 200
      ]_vars

\* C16 witness: a call of fetchMe has just failed with a server error while
\* another is still out: no profile, and the session is still there.
C16_Witness ==
    \E r, q \in Reqs :
        /\ delivered[r].via = "reject"
        /\ delivered[r].result.status = 500
        /\ reqs[q].pc = "sent" /\ reqs[q].url = PROFILE_URL
        /\ user = Null
        /\ isAuthenticated
        /\ storedRefresh # Null

\* ------------------------------------------- claims on the interceptors
\* C17: a request sent through api leaves with Authorization: Bearer <the
\* access token> exactly when a token is set and the request has no
\* Authorization header of its own; a request that has one leaves with it
\* unchanged, and without a token no header is added.
C17_HeaderAttachedWhenAbsent ==
    \A i \in 1..Len(storeLog) :
        storeLog[i].op = "request" =>
            LET sent == storeLog[i]
            IN /\ (sent.token # Null /\ sent.arg = Null)
                      => sent.auth = Bearer(sent.token)
               /\ sent.arg # Null => sent.auth = sent.arg
               /\ sent.token = Null => sent.auth = sent.arg

\* C17 witness: with a token set, a request without a header left with the
\* token, and a request with the header of another token left with its own.
C17_Witness ==
    \E i, j \in 1..Len(storeLog) :
        /\ storeLog[i].op = "request" /\ storeLog[j].op = "request"
        /\ storeLog[i].token = AccessTok(1) /\ storeLog[i].arg = Null
        /\ storeLog[i].auth = Bearer(AccessTok(1))
        /\ storeLog[j].token = AccessTok(1)
        /\ storeLog[j].arg = Bearer(AccessTok(2))
        /\ storeLog[j].auth = Bearer(AccessTok(2))

\* C18: a response whose status is not 401 goes to the caller as it came:
\* the step that hands it over starts no refresh, sends nothing again and
\* leaves both tokens and refreshPromise as they were; and a request that
\* was answered is either handed to its caller at once or its handler
\* awaits a refresh for a 401.
C18_Non401PassesThrough ==
    [][\A r \in Reqs :
         /\ (reqs[r].pc = "sent" /\ delivered'[r].via # "none"
                /\ delivered'[r].result.status # 401) =>
               /\ delivered'[r].result =
                      Outcome("api", r, reqs[r].sends, delivered'[r].result.status)
               /\ delivered'[r].via =
                      IF delivered'[r].result.status = 200 THEN "response"
                      ELSE IF delivered'[r].result.status = 403
                           THEN "auth_required" ELSE "reject"
               /\ reqs'[r] = NewRequest
               /\ \A q \in Reqs : reqs'[q].sends <= reqs[q].sends
               /\ UNCHANGED <<accessToken, storedRefresh, authState,
                              refreshPromise, refreshCalls>>
         /\ (reqs[r].pc = "sent" /\ reqs'[r] # reqs[r]) =>
               \/ delivered'[r].via # "none"
               \/ /\ reqs'[r].pc = "waiting"
                  /\ reqs'[r].error = Outcome("api", r, 1, 401)
      ]_vars

\* C18 witness: a request was answered with a server error while the
\* handler of another awaits a refresh: the caller has the error, the
\* tokens and refreshPromise are in place.
C18_Witness ==
    \E r \in Reqs :
        /\ delivered[r] = Delivery("reject", Outcome("api", r, 1, 500), 1)
        /\ accessToken # Null
        /\ storedRefresh # Null
        /\ refreshPromise # 0

\* C19: when a request is answered 403, or 401 after its retry, the step
\* dispatches exactly one AuthRequiredEvent, with that status, rejects with
\* that error, starts no refresh, sends nothing again and leaves both
\* tokens as they were; and the answer to a retried request always goes to
\* the caller at once.
C19_AuthRequiredOnce ==
    [][\A r \in Reqs :
         /\ (/\ reqs[r].pc = "sent" /\ delivered'[r].via # "none"
             /\ \/ delivered'[r].result.status = 403
                \/ delivered'[r].result.status = 401 /\ reqs[r].retry) =>
               /\ delivered'[r] =
                      Delivery("auth_required",
                               Outcome("api", r, reqs[r].sends,
                                       delivered'[r].result.status),
                               reqs[r].sends)
               /\ emitted' = <<AuthRequired("api", r, delivered'[r].result.status)>>
               /\ reqs'[r] = NewRequest
               /\ \A q \in Reqs : reqs'[q].sends <= reqs[q].sends
               /\ UNCHANGED <<accessToken, storedRefresh, authState,
                              refreshPromise, refreshCalls>>
         /\ (reqs[r].pc = "sent" /\ reqs[r].retry /\ reqs'[r] # reqs[r]) =>
               delivered'[r].via # "none"
      ]_vars

\* C19 witness: a request was answered 403 on its first attempt and
\* rejected with one event, the session still in the store.
C19_Witness ==
    \E r \in Reqs :
        /\ delivered[r] = Delivery("auth_required", Outcome("api", r, 1, 403), 1)
        /\ emitted = <<AuthRequired("api", r, 403)>>
        /\ accessToken # Null
        /\ storedRefresh # Null

\* C20: when the login POST or a refresh POST is answered 401, the step
\* starts no refresh and sends nothing again, the caller of
\* loginWithCredentials gets that 401 error, and the step dispatches an
\* AuthRequiredEvent with status 401.
C20_AuthCall401Emits ==
    [][/\ LoginResponse("401") =>
             /\ loginResult' = Outcome("authApi", 0, 1, 401)
             /\ refreshCalls' = refreshCalls
             /\ \A q \in Reqs : reqs'[q].sends <= reqs[q].sends
             /\ \E i \in 1..Len(emitted') : emitted'[i].status = 401
       /\ \A c \in refreshCalls :
             RefreshResponse(c, "401") =>
                 /\ refreshCalls' = refreshCalls \ {c}
                 /\ \A q \in Reqs : reqs'[q].sends <= reqs[q].sends
                 /\ \E i \in 1..Len(emitted') : emitted'[i].status = 401
      ]_vars

\* C21: a handler that awaited the shared refresh resumes only in the step
\* in which refreshPromise, still the promise it awaited, is reset; and when
\* every network call is answered, a pending refreshPromise is reset in the
\* end, and every request that was answered 401 and marked for retry (its
\* handler waiting or its retry sent) is settled for its caller in the end.
C21_MarkerResetWaitersSettle ==
    /\ [][\A r \in Reqs :
             (reqs[r].pc = "waiting" /\ reqs'[r].pc # "waiting") =>
                 /\ refreshPromise = reqs[r].waitOn
                 /\ refreshPromise' = 0]_vars
    /\ (refreshPromise # 0) ~> (refreshPromise = 0)
    /\ \A r \in Reqs : (reqs[r].retry) ~> (delivered[r].via # "none")

\* C21 witness: two handlers awaited the same refresh, it failed, the marker
\* is reset and both callers hold their own 401.
C21_Witness ==
    /\ refreshPromise = 0
    /\ \A r \in {1, 2} :
           delivered[r] = Delivery("refresh_failed", Outcome("api", r, 1, 401), 1)

\* C24: in a session whose refresh calls all succeed, so that both tokens
\* are null only before the first login or after a logout, both tokens stay
\* null until loginWithCredentials succeeds: no answer to a refresh call
\* that was in flight at logout stores a token.
C24_LoggedOutUntilLogin ==
    [][(accessToken = Null /\ storedRefresh = Null /\ ~LoginSucceeds) =>
           (accessToken' = Null /\ storedRefresh' = Null)]_vars

\* C25: in the step that follows a successful loginWithCredentials, which
\* can only be the logout or the handling of a call sent before the login
\* returned, the tokens the login stored are not cleared unless the step is
\* the logout.
C25_LoginTokensSurvive ==
    [][(loginResult = Outcome("authApi", 0, 1, 200) /\ ~Logout) =>
           (accessToken' # Null /\ storedRefresh' # Null)]_vars

\* C26: UserProvider never applies a profile while the session is gone: a
\* step in which loadUser sets a profile leaves the access token non-null.
C26_ProfileOfCurrentSession ==
    [][(user' # user /\ user' # Null) => accessToken' # Null]_vars

\* C27: when the response interceptor has dispatched an AuthRequiredEvent
\* with status 401, the access token is null and isAuthenticated is false.
C27_Event401MeansSignedOut ==
    \A i \in 1..Len(emitted) :
        (emitted[i].src = "api" /\ emitted[i].status = 401) =>
            (accessToken = Null /\ ~isAuthenticated)

\* ------------------------------------------------------- the document list
\* DocumentsPage with a signed-in user: list loads, the filters form and
\* the paging controls. The backend answers a list load with one page of
\* finished documents.
SignedIn == Init /\ storedRefresh # Null

\* the same in a production build: no StrictMode, effects run once
SignedInProduction == SignedIn /\ ~strictMode

ListAnswers ==
    {ListResult(items, Cardinality(items), next, FALSE) :
        items \in {{}, {Document(1, "DONE")}}, next \in BOOLEAN}

NextList ==
    \/ DocumentsMount
    \/ DocumentsUnmount
    \/ \E ok \in BOOLEAN : PresetsSettle(ok)
    \/ \E i \in 1..MaxLoads, result \in ListAnswers, ok \in BOOLEAN :
           LoadDocumentsSettles(i, result, ok)
    \/ \E q \in FilterQueries :
           handleApplyFilters(OwnFilters(DocumentsPage.appliedFilters, q))
    \/ handleApplyFilters(DocumentsPage.appliedFilters)
    \/ handleClearFilters
    \/ handleRetry
    \/ handleNextPage
    \/ handlePreviousPage
    \/ \E value \in PageSizes : handlePageSizeChange(value)

SpecList == SignedIn /\ [][NextList]_vars

\* C23: a list response that is committed to documents, totalCount and the
\* next/previous flags is the response to the filters, page and page size
\* DocumentsPage holds now, those of the most recently started load; the
\* response to superseded ones is never committed.
C23_StaleListNotCommitted ==
    [][\A i \in 1..MaxLoads, result \in ListAnswers :
           LoadDocumentsSettles(i, result, TRUE) =>
               DocumentsPage.loads[i] = Query(DocumentsPage)]_vars

\* ------------------------------------------------------------ the selection
\* DocumentsPage with its table: the checkboxes, list loads that bring other
\* documents, paging, reprocessing and the polling of unfinished documents.
\* in this scenario the backend reports finished documents only: a list
\* load and a poll round find them done, reprocessing puts one in processing
SelectionLists ==
    {items \in DocumentLists : \A d \in items : d.status = "DONE"}

SelectionAnswers ==
    {ListResult(items, Cardinality(items), TRUE, FALSE) :
        items \in SelectionLists}

\* the presets arrive before the user and the backend do anything else
PresetsArrived == DocumentsPage.presetLoads = 0

NextSelection ==
    \/ DocumentsMount
    \/ PresetsSettle(TRUE)
    \/ /\ PresetsArrived
       /\ \E i \in 1..MaxLoads, result \in SelectionAnswers :
              LoadDocumentsSettles(i, result, TRUE)
    \/ PresetsArrived /\ \E id \in DocIds : handleToggleSelect(id)
    \/ PresetsArrived /\ handleToggleSelectAll
    \/ PresetsArrived /\ handleClearFilters
    \/ PresetsArrived /\ handleNextPage
    \/ PresetsArrived /\ handlePreviousPage
    \/ /\ PresetsArrived
       /\ DocumentsPage.reprocesses = {}
       /\ \E id \in DocIds : handleReprocess(id)
    \/ /\ PresetsArrived
       /\ \E id \in DocIds : ReprocessSettles(id, "PROCESSING", TRUE)
    \/ /\ PresetsArrived
       /\ \E i \in 1..Len(DocumentsPage.polls) :
              \E updates \in Updates(DocumentsPage.polls[i].ids, {"DONE"}) :
                  DocumentsPollSettles(i, updates, TRUE)

SpecSelection == SignedInProduction /\ [][NextSelection]_vars

\* C28: every id in selectedIds is the id of a document in documents.
C28_SelectionWithinDocuments ==
    DocumentsPage.selectedIds \subseteq
        {d.id : d \in DocumentsPage.documents}

\* the list of page 2 has been loaded and part of the selection is left
C28_Witness ==
    /\ DocumentsPage.page = 2
    /\ DocumentsPage.loads = <<>>
    /\ ~DocumentsPage.loading
    /\ DocumentsPage.selectedIds = {2}
    /\ {d.id : d \in DocumentsPage.documents} = {2}

\* -------------------------------------------------------------- the polling
\* Both polling views, one route at a time: DocumentsPage with list loads
\* that bring unfinished documents, UploadPage with uploads the backend
\* takes into processing, the timers, and the answers to the poll rounds.
PollingStatuses == {"PROCESSING", "DONE"}

PollingLists ==
    {items \in DocumentLists : \A d \in items : d.status \in PollingStatuses}

PollingAnswers ==
    {ListResult(items, Cardinality(items), TRUE, FALSE) :
        items \in PollingLists}

\* the user opens a view once the calls of the other one are answered
OtherViewQuiet ==
    /\ DocumentsPage.polls = <<>>
    /\ UploadPage.polls = <<>>
    /\ UploadPage.runs = <<>>

NextPolling ==
    \/ OtherViewQuiet /\ DocumentsMount
    \/ DocumentsUnmount
    \/ \E i \in 1..MaxLoads, result \in PollingAnswers :
           LoadDocumentsSettles(i, result, TRUE)
    \/ handleNextPage
    \/ DocumentsPollTick
    \/ \E i \in 1..Len(DocumentsPage.polls), ok \in BOOLEAN :
           \E updates \in Updates(DocumentsPage.polls[i].ids,
                                  PollingStatuses) :
               DocumentsPollSettles(i, updates, ok)
    \/ OtherViewQuiet /\ UploadMount
    \/ UploadUnmount
    \/ FieldsSettle(TRUE)
    \/ /\ UploadPage.uploads = <<>>
       /\ \E n \in 1..MaxFiles : handleFileChange(n)
    \/ handleUpload
    \/ \E r \in 1..MaxRuns, status \in PollingStatuses :
           UploadSettles(r, status, TRUE)
    \/ UploadPollTick
    \/ \E i \in 1..Len(UploadPage.polls), ok \in BOOLEAN :
           \E updates \in Updates(UploadPage.polls[i].ids, PollingStatuses) :
               UploadPollSettles(i, updates, ok)

SpecPolling == SignedInProduction /\ [][NextPolling]_vars

\* the rounds and the timer of the view P that are still live belong to the
\* mounted view and poll the ids it holds now
LivePollingIs(P, ids) ==
    /\ \A i \in 1..Len(P.polls) :
           P.polls[i].isActive => (P.mounted /\ P.polls[i].ids = ids)
    /\ P.interval.on => (P.mounted /\ P.interval.ids = ids)

\* C22: once a polling view is torn down or its polled ids are replaced,
\* its timer is cleared and its rounds in flight are stopped (after every
\* step, what is still live belongs to the mounted view and to its current
\* ids), and the answer to a stopped round changes neither the documents or
\* uploads nor the error message.
C22_StoppedPollingNeverApplied ==
    [][/\ LivePollingIs(DocumentsPage', pollingIds(DocumentsPage'.documents))
       /\ LivePollingIs(UploadPage', pendingIds(UploadPage'.uploads))
       /\ \A i \in 1..Len(DocumentsPage.polls) :
              ~DocumentsPage.polls[i].isActive =>
                  \A ok \in BOOLEAN,
                     updates \in Updates(DocumentsPage.polls[i].ids,
                                         PollingStatuses) :
                      DocumentsPollSettles(i, updates, ok) =>
                          /\ DocumentsPage'.documents = DocumentsPage.documents
                          /\ DocumentsPage'.error = DocumentsPage.error
                          /\ DocumentsPage'.interval = DocumentsPage.interval
       /\ \A i \in 1..Len(UploadPage.polls) :
              ~UploadPage.polls[i].isActive =>
                  \A ok \in BOOLEAN,
                     updates \in Updates(UploadPage.polls[i].ids,
                                         PollingStatuses) :
                      UploadPollSettles(i, updates, ok) =>
                          /\ UploadPage'.uploads = UploadPage.uploads
                          /\ UploadPage'.error = UploadPage.error
                          /\ UploadPage'.interval = UploadPage.interval]_vars

\* DocumentsPage holds a stopped round in flight, for ids it no longer
\* polls, next to the round of its current ids
C22_Witness ==
    /\ DocumentsPage.mounted
    /\ \E i, k \in 1..Len(DocumentsPage.polls) :
           /\ ~DocumentsPage.polls[i].isActive
           /\ DocumentsPage.polls[i].ids
                  # pollingIds(DocumentsPage.documents)
           /\ DocumentsPage.polls[k].isActive

\* C29: the number of poll rounds in flight grows only when the 3-second
\* timer fires or the set of PENDING/PROCESSING ids changes; a step that
\* applies the answer to a round and leaves that set as it was leaves one
\* round fewer in flight (it starts no other); and while no document is
\* PENDING or PROCESSING there is no timer and no live round.
C29_RoundsOnlyByTimerOrNewIds ==
    [][/\ Len(DocumentsPage'.polls) > Len(DocumentsPage.polls) =>
              \/ DocumentsPollTick
              \/ pollingIds(DocumentsPage'.documents)
                     # pollingIds(DocumentsPage.documents)
       /\ Len(UploadPage'.polls) > Len(UploadPage.polls) =>
              \/ UploadPollTick
              \/ pendingIds(UploadPage'.uploads)
                     # pendingIds(UploadPage.uploads)
       /\ \A i \in 1..Len(DocumentsPage.polls) :
              \A updates \in Updates(DocumentsPage.polls[i].ids,
                                     PollingStatuses) :
                  (/\ DocumentsPollSettles(i, updates, TRUE)
                   /\ pollingIds(DocumentsPage'.documents)
                          = pollingIds(DocumentsPage.documents))
                  => Len(DocumentsPage'.polls) < Len(DocumentsPage.polls)
       /\ \A i \in 1..Len(UploadPage.polls) :
              \A updates \in Updates(UploadPage.polls[i].ids,
                                     PollingStatuses) :
                  (/\ UploadPollSettles(i, updates, TRUE)
                   /\ pendingIds(UploadPage'.uploads)
                          = pendingIds(UploadPage.uploads))
                  => Len(UploadPage'.polls) < Len(UploadPage.polls)
       /\ pollingIds(DocumentsPage'.documents) = {} =>
              LivePollingIs(DocumentsPage', {}) /\ ~DocumentsPage'.interval.on
       /\ pendingIds(UploadPage'.uploads) = {} =>
              LivePollingIs(UploadPage', {}) /\ ~UploadPage'.interval.on]_vars

\* --------------------------------------------------------------- the uploads
\* UploadPage with a signed-in user: the file input, "Enviar" and "Limpar
\* lista", the answers to the uploads, the polling of what the backend
\* still processes, and the route left and entered again.
NextUpload ==
    \/ UploadPage.polls = <<>> /\ UploadMount
    \/ UploadUnmount
    \/ \E ok \in BOOLEAN : FieldsSettle(ok)
    \/ \E n \in 1..MaxFiles : handleFileChange(n)
    \/ handleUpload
    \/ \E r \in 1..MaxRuns, ok \in BOOLEAN :
           UploadSettles(r, "PROCESSING", ok)
    \/ handleClear
    \/ \E i \in 1..Len(UploadPage.polls) :
           \E updates \in Updates(UploadPage.polls[i].ids, {"DONE"}) :
               UploadPollSettles(i, updates, TRUE)

SpecUpload == SignedInProduction /\ [][NextUpload]_vars

\* the entries of the list in status UPLOADING
Uploading ==
    {i \in 1..Len(UploadPage.uploads) :
        UploadPage.uploads[i].status = "UPLOADING"}

\* C30: files are uploaded one at a time: at most one entry is UPLOADING,
\* at most one upload request is in flight, the item a request carries was
\* READY in the list handleUpload ran over, and isUploading is set only
\* while a run of handleUpload is in progress.
C30_OneUploadAtATime ==
    /\ Cardinality(Uploading) <= 1
    /\ Len(UploadPage.runs) <= 1
    /\ \A r \in 1..Len(UploadPage.runs) :
           UploadPage.runs[r].items[UploadPage.runs[r].pos].status = "READY"
    /\ UploadPage.isUploading =>
           \E r \in 1..Len(UploadPage.runs) : UploadPage.runs[r].live

====
